---- MODULE Spec2Model ----
(***************************************************************************)
(* Subscription control of the utility customer system: the consumer-local *)
(* error handler and subscription manager of                               *)
(* services/payment-processing/error_handler.py, the message processing of *)
(* services/bank-account-setup/handler.py that calls them, and the Lambda  *)
(* platform's event source mappings they read and update.                  *)
(***************************************************************************)
EXTENDS Integers, Sequences, FiniteSets, TLC

\* ------------------------------------------------------------------ bounds
\* Largest number of event source mappings the consumer's function ever has.
MaxBindings == 2

\* ------------------------------------------------------ values and inputs
\* status_code = None (handle_error/classify_error default argument).
NoStatus == -1
\* event_source_mapping_uuid = None.
NoUuid == 0

SERVICE_NAME == "bank-account-setup"

\* ErrorType enum values.
CLIENT_ERROR == "client_error"
SERVER_ERROR == "server_error"
NETWORK_ERROR == "network_error"
VALIDATION_ERROR == "validation_error"
PROCESSING_ERROR == "processing_error"
ErrorType ==
  {CLIENT_ERROR, SERVER_ERROR, NETWORK_ERROR, VALIDATION_ERROR, PROCESSING_ERROR}

\* Exceptions: the type name and the text of str(error).
Err(name, text) == [name |-> name, text |-> text]
Errors ==
  { Err("ConnectionError", "Connection refused"),
    Err("TimeoutError", "Read timeout"),
    Err("ConnectTimeout", "Connection timeout"),
    Err("ValueError", "Missing required field: customer_id"),
    Err("ValidationError", "Invalid payload"),
    Err("KeyError", "amount"),
    Err("Exception", "Connection timeout"),
    Err("Exception", "Invalid account number format"),
    Err("Exception", "Bank validation service temporarily unavailable"),
    Err("RuntimeError", "unexpected failure") }

\* The lower-cased fragments a message text contains, among those the code
\* searches for with the `in` operator on str(e).lower().
Fragments(text) ==
  CASE text = "Connection refused" -> {"connection"}
    [] text = "Read timeout" -> {"timeout"}
    [] text = "Connection timeout" -> {"connection", "timeout"}
    [] text = "Missing required field: customer_id" -> {"missing"}
    [] text = "Invalid payload" -> {"invalid"}
    [] text = "Invalid account number format" -> {"invalid", "format"}
    [] text = "Missing required field: routing_number" -> {"missing"}
    [] text = "Missing required field: account_number" -> {"missing"}
    [] text = "Bank validation service temporarily unavailable" ->
         {"service", "unavailable"}
    [] OTHER -> {}

StatusCodes == {NoStatus, 0, 399, 400, 499, 500, 599, 600}

\* The failures and status codes the handler is driven with.
HandledErrors ==
  { Err("TimeoutError", "Read timeout"),
    Err("ValueError", "Missing required field: customer_id"),
    Err("Exception", "Connection timeout") }
HandledStatusCodes == {NoStatus, 0, 400, 500, 600}

\* message_data: a mapping (its items as <<key, value>> pairs) with or without
\* the two keys handle_error reads, or a value that is not a mapping.
Mapping(items) == [is_mapping |-> TRUE, items |-> items]
NotAMapping == [is_mapping |-> FALSE, items |-> {}]
Contexts ==
  { Mapping({<<"message_id", "msg-1">>, <<"customer_id", "cust-1">>}),
    Mapping({}),
    NotAMapping }

\* dict.get(key, default).
Get(ctx, key, default) ==
  IF \E p \in ctx.items : p[1] = key
    THEN (CHOOSE p \in ctx.items : p[1] = key)[2]
    ELSE default

\* ---------------------------------------------------------------- platform
\* State of an event source mapping as the platform reports it.
BindingStates == {"Enabled", "Disabled", "Updating"}

VARIABLES
  mappings,      \* the function's event source mappings, in listing order;
                 \* the UUID of a mapping is its position
  built,         \* how the error handler was built (with a manager or not)
  uuid,          \* SubscriptionManager.event_source_mapping_uuid
  last           \* the last operation, its arguments and what it returned

\* The centralized subscription manager
\* (services/subscription-manager/handler.py) and the platform it scans.
VARIABLES
  functions,            \* the platform's Lambda functions, each with its
                        \* event source mappings in listing order
  managed_functions,    \* SubscriptionManager.managed_functions
  last_config_refresh,  \* SubscriptionManager._last_config_refresh
  now,                  \* time.time()
  mlast                 \* the manager's last operation and what it returned

\* The SQS queue of the bank account consumer.
VARIABLES
  queue,                \* the messages in the queue, oldest first
  sent                  \* how many messages were sent to the queue so far

\* The subscription-control topic and the control operations under way.
VARIABLES
  topic,                \* the deliveries the topic still owes its subscribers
  published,            \* how many messages were published to the topic
  inflight              \* the control operations that listed a function's
                        \* mappings and have not returned yet

cvars == <<mappings, built, uuid, last>>
mvars == <<functions, managed_functions, last_config_refresh, now, mlast>>
qvars == <<queue, sent>>
tvars == <<topic, published>>
vars == <<mappings, built, uuid, last,
          functions, managed_functions, last_config_refresh, now, mlast,
          queue, sent, topic, published, inflight>>

\* No queue is modelled: nothing is sent.
QueueAbsent ==
  /\ queue = << >>
  /\ sent = 0

\* No topic is modelled: nothing is published.
TopicAbsent ==
  /\ topic = << >>
  /\ published = 0

\* Every operation runs alone: none is under way when another starts.
NothingInFlight == inflight = << >>

\* A consumer on its own: no centralized manager is deployed.
ManagerAbsent ==
  /\ functions = << >>
  /\ managed_functions = << >>
  /\ last_config_refresh = 0
  /\ now = 0
  /\ mlast = [op |-> "none"]

Uuids == 1..MaxBindings

SQS_ARN == "arn:aws:sqs:us-east-2:123456789012:bank-account-setup.fifo"
KINESIS_ARN == "arn:aws:kinesis:us-east-2:123456789012:stream/audit"
EventSourceArns == {SQS_ARN, KINESIS_ARN}

\* 'sqs' in event_source_arn.lower()
IsSqsArn(arn) == arn = SQS_ARN

EventSourceMapping(arn, state) == [EventSourceArn |-> arn, State |-> state]

\* lambda_client.list_event_source_mappings(FunctionName=...): the listing, or
\* an exception when the platform does not serve the call.
list_event_source_mappings(maps, ok) ==
  [raised |-> ~ok, EventSourceMappings |-> IF ok THEN maps ELSE <<>>]

\* lambda_client.update_event_source_mapping(UUID=u, Enabled=enabled): raises
\* when the call is not served or no mapping has that UUID.
update_event_source_mapping(maps, u, enabled, ok) ==
  IF ok /\ u \in 1..Len(maps)
    THEN [raised |-> FALSE,
          mappings |-> [maps EXCEPT ![u].State =
                          IF enabled THEN "Enabled" ELSE "Disabled"]]
    ELSE [raised |-> TRUE, mappings |-> maps]

\* lambda_client.get_event_source_mapping(UUID=u)
get_event_source_mapping(maps, u, ok) ==
  IF ok /\ u \in 1..Len(maps)
    THEN [raised |-> FALSE, State |-> maps[u].State]
    ELSE [raised |-> TRUE, State |-> "none"]

\* ------------------------------------------------- SubscriptionManager
\* _discover_event_source_mapping_uuid without the test of the ARN: the UUID
\* of the first listed mapping, whatever its source.
discover_event_source_mapping_uuid_any(maps, ok) ==
  LET response == list_event_source_mappings(maps, ok)
      listed == response.EventSourceMappings
  IN  IF response.raised THEN NoUuid
      ELSE IF Len(listed) = 0 THEN NoUuid
      ELSE 1

\* SubscriptionManager._discover_event_source_mapping_uuid: the UUID of the
\* first listed mapping whose ARN names SQS; None when there is none or the
\* listing fails.
discover_event_source_mapping_uuid(maps, ok) ==
  LET response == list_event_source_mappings(maps, ok)
      listed == response.EventSourceMappings
      sqs == {i \in 1..Len(listed) : IsSqsArn(listed[i].EventSourceArn)}
  IN  IF response.raised THEN NoUuid
      ELSE IF sqs = {} THEN NoUuid
      ELSE CHOOSE i \in sqs : \A j \in sqs : i <= j

\* SubscriptionManager.__init__: the UUID given, or else the one discovered.
SubscriptionManager_init(given, maps, ok) ==
  IF given # NoUuid THEN given
  ELSE discover_event_source_mapping_uuid(maps, ok)

\* disable_subscription with the Enabled flag of enable_subscription.
disable_subscription_enabling(u, maps, ok) ==
  IF u = NoUuid
    THEN [ret |-> FALSE, raised |-> FALSE, mappings |-> maps,
          update_calls |-> 0, failed |-> FALSE]
    ELSE LET response == update_event_source_mapping(maps, u, TRUE, ok)
         IN  [ret |-> ~response.raised, raised |-> FALSE,
              mappings |-> response.mappings,
              update_calls |-> 1, failed |-> response.raised]

\* SubscriptionManager.disable_subscription
disable_subscription(u, maps, ok) ==
  IF u = NoUuid
    THEN [ret |-> FALSE, raised |-> FALSE, mappings |-> maps,
          update_calls |-> 0, failed |-> FALSE]
    ELSE LET response == update_event_source_mapping(maps, u, FALSE, ok)
         IN  [ret |-> ~response.raised, raised |-> FALSE,
              mappings |-> response.mappings,
              update_calls |-> 1, failed |-> response.raised]

\* enable_subscription without its except clause: a failed update leaves it
\* as an exception.
enable_subscription_unguarded(u, maps, ok) ==
  IF u = NoUuid
    THEN [ret |-> FALSE, raised |-> FALSE, mappings |-> maps,
          update_calls |-> 0, failed |-> FALSE]
    ELSE LET response == update_event_source_mapping(maps, u, TRUE, ok)
         IN  [ret |-> ~response.raised, raised |-> response.raised,
              mappings |-> response.mappings,
              update_calls |-> 1, failed |-> response.raised]

\* SubscriptionManager.enable_subscription
enable_subscription(u, maps, ok) ==
  IF u = NoUuid
    THEN [ret |-> FALSE, raised |-> FALSE, mappings |-> maps,
          update_calls |-> 0, failed |-> FALSE]
    ELSE LET response == update_event_source_mapping(maps, u, TRUE, ok)
         IN  [ret |-> ~response.raised, raised |-> FALSE,
              mappings |-> response.mappings,
              update_calls |-> 1, failed |-> response.raised]

\* SubscriptionManager.get_subscription_status
get_subscription_status(u, maps, ok) ==
  IF u = NoUuid THEN FALSE
  ELSE LET response == get_event_source_mapping(maps, u, ok)
       IN  IF response.raised THEN FALSE ELSE response.State = "Enabled"

\* --------------------------------------------------------- ErrorHandler
NetworkErrorNames == {"ConnectionError", "TimeoutError", "ConnectTimeout"}
ValidationErrorNames == {"ValueError", "ValidationError", "KeyError"}

\* classify_error with the lower bounds of the status ranges excluded.
classify_error_open_ranges(error, status_code) ==
  IF status_code # NoStatus /\ status_code # 0
       /\ 400 < status_code /\ status_code < 500
    THEN CLIENT_ERROR
  ELSE IF status_code # NoStatus /\ status_code # 0
       /\ 500 < status_code /\ status_code < 600
    THEN SERVER_ERROR
  ELSE IF error.name \in NetworkErrorNames THEN NETWORK_ERROR
  ELSE IF error.name \in ValidationErrorNames THEN VALIDATION_ERROR
  ELSE PROCESSING_ERROR

\* classify_error that also searches the message text.
classify_error_by_text(error, status_code) ==
  IF status_code # NoStatus /\ status_code # 0
       /\ 400 <= status_code /\ status_code < 500
    THEN CLIENT_ERROR
  ELSE IF status_code # NoStatus /\ status_code # 0
       /\ 500 <= status_code /\ status_code < 600
    THEN SERVER_ERROR
  ELSE IF error.name \in NetworkErrorNames
          \/ "timeout" \in Fragments(error.text)
    THEN NETWORK_ERROR
  ELSE IF error.name \in ValidationErrorNames
          \/ "invalid" \in Fragments(error.text)
    THEN VALIDATION_ERROR
  ELSE PROCESSING_ERROR

\* classify_error that knows no kind for a status code outside 400..599.
classify_error_partial(error, status_code) ==
  IF status_code # NoStatus /\ status_code # 0
    THEN IF 400 <= status_code /\ status_code < 500 THEN CLIENT_ERROR
         ELSE IF 500 <= status_code /\ status_code < 600 THEN SERVER_ERROR
         ELSE "unknown_error"
  ELSE IF error.name \in NetworkErrorNames THEN NETWORK_ERROR
  ELSE IF error.name \in ValidationErrorNames THEN VALIDATION_ERROR
  ELSE PROCESSING_ERROR

\* ErrorHandler.classify_error
classify_error(error, status_code) ==
  IF status_code # NoStatus /\ status_code # 0
       /\ 400 <= status_code /\ status_code < 500
    THEN CLIENT_ERROR
  ELSE IF status_code # NoStatus /\ status_code # 0
       /\ 500 <= status_code /\ status_code < 600
    THEN SERVER_ERROR
  ELSE IF error.name \in NetworkErrorNames THEN NETWORK_ERROR
  ELSE IF error.name \in ValidationErrorNames THEN VALIDATION_ERROR
  ELSE PROCESSING_ERROR

\* should_retry that retries everything but validation errors.
should_retry_processing(error_type) ==
  error_type \in {NETWORK_ERROR, SERVER_ERROR, PROCESSING_ERROR}

\* ErrorHandler.should_retry
should_retry(error_type) == error_type \in {NETWORK_ERROR, SERVER_ERROR}

\* ErrorHandler.should_stop_subscription
should_stop_subscription(error_type) == error_type = SERVER_ERROR

\* The client error branch with the action of the server error branch.
handle_client_error_stopping(error_info, maps) ==
  [raised |-> FALSE, mappings |-> maps, disable_calls |-> 0,
   update_calls |-> 0, failed |-> FALSE,
   result |-> [action |-> "stop_subscription", retry |-> FALSE,
               error_info |-> error_info]]

\* ErrorHandler.handle_error, the branch of a client error: no call.
handle_client_error(error_info, maps) ==
  [raised |-> FALSE, mappings |-> maps, disable_calls |-> 0,
   update_calls |-> 0, failed |-> FALSE,
   result |-> [action |-> "continue", retry |-> FALSE,
               error_info |-> error_info]]

\* The server error branch recording that the subscription is disabled
\* whatever disable_subscription returned.
handle_server_error_assuming(error_info, with_manager, u, maps, ok) ==
  IF with_manager
    THEN LET success == disable_subscription(u, maps, ok)
         IN  [raised |-> FALSE, mappings |-> success.mappings,
              disable_calls |-> 1, update_calls |-> success.update_calls,
              failed |-> success.failed,
              result |-> [action |-> "stop_subscription", retry |-> FALSE,
                          error_info |-> error_info @@
                            [subscription_disabled |-> TRUE]]]
    ELSE [raised |-> FALSE, mappings |-> maps, disable_calls |-> 0,
          update_calls |-> 0, failed |-> FALSE,
          result |-> [action |-> "stop_subscription", retry |-> FALSE,
                      error_info |-> error_info]]

\* ErrorHandler.handle_error, the branch of a server error.  with_manager:
\* self.subscription_manager is set; u: its UUID; ok: the platform serves the
\* update call.
handle_server_error(error_info, with_manager, u, maps, ok) ==
  IF with_manager
    THEN LET success == disable_subscription(u, maps, ok)
         IN  [raised |-> FALSE, mappings |-> success.mappings,
              disable_calls |-> 1, update_calls |-> success.update_calls,
              failed |-> success.failed,
              result |-> [action |-> "stop_subscription", retry |-> FALSE,
                          error_info |-> error_info @@
                            [subscription_disabled |-> success.ret]]]
    ELSE [raised |-> FALSE, mappings |-> maps, disable_calls |-> 0,
          update_calls |-> 0, failed |-> FALSE,
          result |-> [action |-> "stop_subscription", retry |-> FALSE,
                      error_info |-> error_info]]

\* ErrorHandler.handle_error, the branch of the other errors.
handle_other_error(error_type, error_info, maps) ==
  [raised |-> FALSE, mappings |-> maps, disable_calls |-> 0,
   update_calls |-> 0, failed |-> FALSE,
   result |-> [action |-> "continue", retry |-> should_retry(error_type),
               error_info |-> error_info]]

\* ErrorHandler.handle_error: the returned dict, or raised = TRUE when an
\* exception leaves the method; with the mappings as the call leaves them
\* and the number of disable_subscription and platform update calls it made.
handle_error(error, message_data, status_code, with_manager, u, maps, ok) ==
  LET error_type == classify_error(error, status_code)
      error_info ==
        [error_type |-> error_type,
         error_message |-> error.text,
         status_code |-> status_code,
         service |-> SERVICE_NAME,
         message_id |-> Get(message_data, "message_id", "unknown"),
         customer_id |-> Get(message_data, "customer_id", "unknown")]
  IN  IF ~message_data.is_mapping
        \* message_data.get raises AttributeError and nothing catches it
        THEN [raised |-> TRUE, mappings |-> maps, disable_calls |-> 0,
              update_calls |-> 0, failed |-> FALSE,
              result |-> [action |-> "none"]]
      ELSE IF error_type = CLIENT_ERROR
        THEN handle_client_error(error_info, maps)
      ELSE IF error_type = SERVER_ERROR
        THEN handle_server_error(error_info, with_manager, u, maps, ok)
      ELSE handle_other_error(error_type, error_info, maps)

\* str.lower() of the action and service words the models use.
Lower(word) ==
  CASE word = "ENABLE" -> "enable"
    [] word = "Disable" -> "disable"
    [] OTHER -> word

\* The action words that arrive in control messages.
ControlActions == {"enable", "disable", "start", "pause", "Disable"}

\* The decoded SNS control messages a consumer receives: an action, for
\* every consumer, for this one or for another one; and a payload that is
\* no JSON object.
ControlMessages ==
  {Mapping({<<"action", a>>} \cup service) :
     a \in ControlActions,
     service \in {{}, {<<"service", SERVICE_NAME>>},
                  {<<"service", "payment-processing">>}}}
    \cup {NotAMapping}

\* ErrorHandler.handle_subscription_control_message(message)
handle_subscription_control_message(message, with_manager, u, maps, ok) ==
  LET quiet(ret, outcome) ==
        [ret |-> ret, outcome |-> outcome, mappings |-> maps,
         update_calls |-> 0, failed |-> FALSE]
      action == Lower(Get(message, "action", ""))
      target_service == Lower(Get(message, "service", ""))
  IN  IF ~message.is_mapping THEN quiet(FALSE, "error")
      ELSE IF target_service # "" /\ target_service # Lower(SERVICE_NAME)
        THEN quiet(TRUE, "not_for_this_service")
      ELSE IF ~with_manager THEN quiet(FALSE, "no_manager")
      ELSE IF action \in {"start", "enable"}
        THEN LET e == enable_subscription(u, maps, ok)
             IN  [ret |-> e.ret, outcome |-> "enable",
                  mappings |-> e.mappings, update_calls |-> e.update_calls,
                  failed |-> e.failed]
      ELSE IF action \in {"stop", "disable"}
        THEN LET d == disable_subscription(u, maps, ok)
             IN  [ret |-> d.ret, outcome |-> "disable",
                  mappings |-> d.mappings, update_calls |-> d.update_calls,
                  failed |-> d.failed]
      ELSE quiet(FALSE, "unknown_action")

\* ------------------------------------------ bank-account-setup handler
\* Messages of the bank account queue.
BankMessage(customer_id, fields) ==
  Mapping({<<"message_id", "msg-1">>}
          \cup {<<"customer_id", customer_id>> :
                   f \in fields \cap {"customer_id"}}
          \cup {<<f, "123456789">> : f \in fields \ {"customer_id"}})
AllFields == {"customer_id", "routing_number", "account_number"}
BankMessages ==
  { BankMessage("CUST-001", AllFields),
    BankMessage("CUST-ERROR400-BANK", AllFields),
    BankMessage("CUST-ERROR500-BANK", AllFields),
    BankMessage("CUST-001", {"customer_id", "routing_number"}),
    BankMessage("CUST-001", {"routing_number", "account_number"}) }

\* 'ERROR400' in customer_id.upper(), 'ERROR500' in customer_id.upper()
UpperHas(customer_id, marker) ==
  \/ marker = "ERROR400" /\ customer_id = "CUST-ERROR400-BANK"
  \/ marker = "ERROR500" /\ customer_id = "CUST-ERROR500-BANK"

NoError == Err("none", "")

\* The exception that the try block of process_bank_account_message raises
\* on a message (required fields, then simulate_bank_account_validation),
\* NoError when it raises none.
bank_account_failure(message_body) ==
  LET customer_id == Get(message_body, "customer_id", "unknown")
  IN  IF Get(message_body, "customer_id", "") = ""
        THEN Err("ValueError", "Missing required field: customer_id")
      ELSE IF Get(message_body, "routing_number", "") = ""
        THEN Err("ValueError", "Missing required field: routing_number")
      ELSE IF Get(message_body, "account_number", "") = ""
        THEN Err("ValueError", "Missing required field: account_number")
      ELSE IF UpperHas(customer_id, "ERROR400")
        THEN Err("Exception", "Invalid account number format")
      ELSE IF UpperHas(customer_id, "ERROR500")
        THEN Err("Exception",
                 "Bank validation service temporarily unavailable")
      ELSE NoError

\* process_bank_account_message, the status code chosen from the text of
\* the exception.
bank_status_code(e) ==
  IF "invalid" \in Fragments(e.text) \/ "format" \in Fragments(e.text)
    THEN 400
  ELSE IF "unavailable" \in Fragments(e.text)
          \/ "service" \in Fragments(e.text)
    THEN 500
  ELSE NoStatus

\* process_bank_account_message with the module's error_handler.
process_bank_account_message(message_body, u, maps, ok) ==
  LET e == bank_account_failure(message_body)
  IN  IF e = NoError
        THEN [raised |-> FALSE, mappings |-> maps, disable_calls |-> 0,
              update_calls |-> 0, failed |-> FALSE,
              result |-> [status |-> "success"]]
        ELSE LET h == handle_error(e, message_body, bank_status_code(e),
                                   TRUE, u, maps, ok)
             IN  [raised |-> h.raised, mappings |-> h.mappings,
                  disable_calls |-> h.disable_calls,
                  update_calls |-> h.update_calls, failed |-> h.failed,
                  result |-> [status |-> "error",
                              error |-> e.text,
                              error_info |-> h.result.error_info,
                              action |-> h.result.action]]

\* ------------------------------------------------------------- the system
\* How the module's error handler was built.
Builds == {"create_error_handler", "ErrorHandler"}

NoPrev == [op |-> "none", ret |-> FALSE]
Idle(op) ==
  [op |-> op, error |-> NoError, status_code |-> NoStatus, raised |-> FALSE,
   result |-> [action |-> "none"], ret |-> FALSE, disable_calls |-> 0,
   update_calls |-> 0, failed |-> FALSE, prev |-> NoPrev]

\* What a later call remembers of the call before it.
Summary ==
  [op |-> last.op,
   ret |-> IF last.op \in {"handle_error", "process_bank_account_message"}
             THEN /\ ~last.raised
                  /\ "error_info" \in DOMAIN last.result
                  /\ "subscription_disabled" \in DOMAIN last.result.error_info
                  /\ last.result.error_info.subscription_disabled
             ELSE last.ret]

\* The mappings provisioning can create: an SQS mapping in any state, a
\* mapping of another source (whose state nothing here reads) Enabled.
NewMappings ==
  {EventSourceMapping(SQS_ARN, state) : state \in BindingStates}
    \cup {EventSourceMapping(KINESIS_ARN, "Enabled")}
MappingLists == UNION {[1..n -> NewMappings] : n \in 0..MaxBindings}

\* The UUIDs a caller can know beforehand: those of the SQS mappings.
KnownUuids(maps) == {u \in 1..Len(maps) : IsSqsArn(maps[u].EventSourceArn)}

\* What a construction leaves to look at: the UUID it was given, and whether
\* the listing of its discovery raised.
Constructed(build, given, ok) ==
  [Idle("construct") EXCEPT
     !.result = [action |-> "none", given |-> given],
     !.failed = (build # "ErrorHandler" /\ given = NoUuid /\ ~ok)]

\* create_error_handler(service_name, given) with the mappings the function
\* has at that time, or ErrorHandler(service_name) without a manager.
Construct(build, given, ok) ==
  /\ given \in {NoUuid} \cup KnownUuids(mappings)
  /\ built' = build
  /\ uuid' = IF build = "ErrorHandler" THEN NoUuid
             ELSE SubscriptionManager_init(given, mappings, ok)
  /\ last' = Constructed(build, given, ok)
  /\ UNCHANGED mappings
  /\ UNCHANGED <<mvars, qvars, tvars, inflight>>

Init ==
  /\ mappings \in MappingLists
  /\ built \in Builds
  /\ \E given \in {NoUuid} \cup KnownUuids(mappings), ok \in BOOLEAN :
       /\ uuid = IF built = "ErrorHandler" THEN NoUuid
                 ELSE SubscriptionManager_init(given, mappings, ok)
       /\ last = Constructed(built, given, ok)
  /\ ManagerAbsent
  /\ QueueAbsent
  /\ TopicAbsent
  /\ NothingInFlight

\* error_handler.classify_error(error, status_code)
ClassifyError(error, status_code) ==
  /\ last' = [Idle("classify_error") EXCEPT
                !.error = error, !.status_code = status_code,
                !.result = [error_type |-> classify_error(error, status_code)]]
  /\ UNCHANGED <<mappings, built, uuid>>
  /\ UNCHANGED <<mvars, qvars, tvars, inflight>>

\* error_handler.handle_error(error, message_data, status_code)
HandleError(error, message_data, status_code, ok) ==
  LET h == handle_error(error, message_data, status_code,
                        built # "ErrorHandler", uuid, mappings, ok)
  IN  /\ mappings' = h.mappings
      /\ last' = [Idle("handle_error") EXCEPT
                    !.error = error, !.status_code = status_code,
                    !.raised = h.raised, !.result = h.result,
                    !.disable_calls = h.disable_calls,
                    !.update_calls = h.update_calls,
                    !.failed = h.failed]
      /\ UNCHANGED <<built, uuid>>
  /\ UNCHANGED <<mvars, qvars, tvars, inflight>>

\* process_bank_account_message(message_body) in the bank account consumer,
\* whose error handler create_error_handler(SERVICE_NAME) built.
ProcessBankAccountMessage(message_body, ok) ==
  /\ built = "create_error_handler"
  /\ LET r == process_bank_account_message(message_body, uuid, mappings, ok)
     IN  /\ mappings' = r.mappings
         /\ last' = [Idle("process_bank_account_message") EXCEPT
                       !.error = bank_account_failure(message_body),
                       !.status_code =
                          bank_status_code(bank_account_failure(message_body)),
                       !.raised = r.raised, !.result = r.result,
                       !.disable_calls = r.disable_calls,
                       !.update_calls = r.update_calls,
                       !.failed = r.failed]
  /\ UNCHANGED <<built, uuid>>
  /\ UNCHANGED <<mvars, qvars, tvars, inflight>>

\* subscription_manager.disable_subscription()
DisableSubscription(ok) ==
  /\ built # "ErrorHandler"
  /\ LET d == disable_subscription(uuid, mappings, ok)
     IN  /\ mappings' = d.mappings
         /\ last' = [Idle("disable_subscription") EXCEPT
                       !.ret = d.ret, !.raised = d.raised,
                       !.update_calls = d.update_calls,
                       !.failed = d.failed,
                       !.prev = Summary]
  /\ UNCHANGED <<built, uuid>>
  /\ UNCHANGED <<mvars, qvars, tvars, inflight>>

\* subscription_manager.enable_subscription()
EnableSubscription(ok) ==
  /\ built # "ErrorHandler"
  /\ LET d == enable_subscription(uuid, mappings, ok)
     IN  /\ mappings' = d.mappings
         /\ last' = [Idle("enable_subscription") EXCEPT
                       !.ret = d.ret, !.raised = d.raised,
                       !.update_calls = d.update_calls,
                       !.failed = d.failed,
                       !.prev = Summary]
  /\ UNCHANGED <<built, uuid>>
  /\ UNCHANGED <<mvars, qvars, tvars, inflight>>

\* subscription_manager.get_subscription_status()
GetSubscriptionStatus(ok) ==
  /\ built # "ErrorHandler"
  /\ last' = [Idle("get_subscription_status") EXCEPT
                !.ret = get_subscription_status(uuid, mappings, ok),
                !.failed = (uuid # NoUuid /\
                   get_event_source_mapping(mappings, uuid, ok).raised),
                !.prev = Summary]
  /\ UNCHANGED <<mappings, built, uuid>>
  /\ UNCHANGED <<mvars, qvars, tvars, inflight>>

\* error_handler.handle_subscription_control_message(message)
HandleSubscriptionControlMessage(message, ok) ==
  LET c == handle_subscription_control_message(
             message, built # "ErrorHandler", uuid, mappings, ok)
  IN  /\ mappings' = c.mappings
      /\ last' = [Idle("handle_subscription_control_message") EXCEPT
                    !.ret = c.ret,
                    !.result = [action |-> c.outcome, message |-> message],
                    !.update_calls = c.update_calls,
                    !.failed = c.failed]
      /\ UNCHANGED <<built, uuid>>
  /\ UNCHANGED <<mvars, qvars, tvars, inflight>>

\* Provisioning creates an event source mapping for the function.
CreateBinding(mapping) ==
  /\ Len(mappings) < MaxBindings
  /\ mappings' = Append(mappings, mapping)
  /\ last' = Idle("platform")
  /\ UNCHANGED <<built, uuid>>
  /\ UNCHANGED <<mvars, qvars, tvars, inflight>>

\* The platform, an operator or the central manager changes the state of a
\* mapping.
PlatformSetState(u, state) ==
  /\ u \in KnownUuids(mappings)
  /\ mappings[u].State # state
  /\ mappings' = [mappings EXCEPT ![u].State = state]
  /\ last' = Idle("platform")
  /\ UNCHANGED <<built, uuid>>
  /\ UNCHANGED <<mvars, qvars, tvars, inflight>>

Next ==
  \/ \E build \in Builds, given \in {NoUuid} \cup Uuids, ok \in BOOLEAN :
       Construct(build, given, ok)
  \/ \E error \in HandledErrors, message_data \in Contexts,
        status_code \in HandledStatusCodes, ok \in BOOLEAN :
       HandleError(error, message_data, status_code, ok)
  \/ \E message_body \in BankMessages, ok \in BOOLEAN :
       ProcessBankAccountMessage(message_body, ok)
  \/ \E ok \in BOOLEAN : DisableSubscription(ok)
  \/ \E ok \in BOOLEAN : EnableSubscription(ok)
  \/ \E ok \in BOOLEAN : GetSubscriptionStatus(ok)
  \/ \E message \in ControlMessages, ok \in BOOLEAN :
       HandleSubscriptionControlMessage(message, ok)
  \/ \E mapping \in NewMappings : CreateBinding(mapping)
  \/ \E u \in Uuids, state \in BindingStates : PlatformSetState(u, state)

Spec == Init /\ [][Next]_vars

\* The classifier alone, applied to every failure and status code.
NextClassify ==
  \E error \in Errors, status_code \in StatusCodes :
    ClassifyError(error, status_code)

SpecClassify == Init /\ [][NextClassify]_vars

\* ======================================= the centralized subscription manager
\* os.getenv('FUNCTION_PREFIX', ...) and os.getenv('EXCLUDE_FUNCTIONS', ...)
FUNCTION_PREFIX == "utility-customer-system-dev-"
EXCLUDE_FUNCTIONS == {"subscription-manager"}
\* int(os.getenv('CONFIG_REFRESH_INTERVAL', '300'))
CONFIG_REFRESH_INTERVAL == 300

\* The clock stops here.
MaxTime == 300
\* The steps of the clock between two operations.
Delays == {150, 300}

\* A function name: a prefix and what follows it.
FunctionName(prefix, rest) == [prefix |-> prefix, rest |-> rest]
\* function_name.startswith(function_prefix)
StartsWith(function_name, prefix) == function_name.prefix = prefix
\* function_name.replace(function_prefix, '')
ServiceName(function_name) == function_name.rest
\* exclude in service_name: none of the service names here contains another
\* word than itself.
Contains(service_name, exclude) == service_name = exclude

BANK == FunctionName(FUNCTION_PREFIX, "bank-account-setup")
PAYMENT == FunctionName(FUNCTION_PREFIX, "payment-processing")
MANAGER == FunctionName(FUNCTION_PREFIX, "subscription-manager")
FOREIGN == FunctionName("image-service-dev-", "thumbnails")

\* The functions of the account, in the order list_functions pages them.
ListedFunctions == <<BANK, PAYMENT, MANAGER, FOREIGN>>
FunctionNames == {ListedFunctions[i] : i \in 1..Len(ListedFunctions)}
\* The consumers whose mappings the manager's calls reach.
Consumers == {BANK, PAYMENT}

\* The platform states: the bank account consumer has up to MaxBindings SQS
\* mappings, the payment consumer a stream mapping and one SQS mapping, the
\* two other functions an SQS mapping nobody changes.
SqsMappings == {EventSourceMapping(SQS_ARN, state) : state \in BindingStates}
PlatformStates ==
  {[f \in FunctionNames |->
      CASE f = BANK -> bank
        [] f = PAYMENT -> <<EventSourceMapping(KINESIS_ARN, "Enabled"), pay>>
        [] OTHER -> <<EventSourceMapping(SQS_ARN, "Enabled")>>] :
     bank \in UNION {[1..n -> SqsMappings] : n \in 0..MaxBindings},
     pay \in SqsMappings}

\* function_config
FunctionConfig(function_name) ==
  [function_name |-> function_name, service_name |-> ServiceName(function_name)]

\* What the platform does to the calls of one operation. For each consumer:
\* "list" fails the listing of its mappings when they are toggled,
\* "update_client" fails the first update of one of its mappings with a
\* ClientError, "update_other" with another exception.
FaultKinds == {"none", "list", "update_client", "update_other"}
Faults == [Consumers -> FaultKinds]
NoFaults == [f \in Consumers |-> "none"]
\* The fault that meets the calls for a function: none for a function that is
\* not one of the consumers.
FaultOf(fault, function_name) ==
  IF function_name \in DOMAIN fault THEN fault[function_name] ELSE "none"

\* What the configured sources yield, each a registry that is empty when the
\* source fails or holds nothing: _load_from_ssm, _load_from_dynamodb,
\* _auto_discover_functions (by tags) and the variable MANAGED_FUNCTIONS.
Sources(ssm, dynamodb, tagged, environment) ==
  [ssm |-> ssm, dynamodb |-> dynamodb, tagged |-> tagged,
   environment |-> environment]
NoSources == Sources(<< >>, << >>, << >>, << >>)

\* What a scan of the registry meets: list_functions served or not, the
\* consumers whose mappings cannot be listed during the scan, and what the
\* configured sources yield.
Scan(list_functions_ok, unlistable, configured) ==
  [list_functions_ok |-> list_functions_ok, unlistable |-> unlistable,
   configured |-> configured]
Configured ==
  {NoSources, Sources(<<FunctionConfig(BANK)>>, << >>, << >>, << >>)}
Scans ==
  {Scan(TRUE, {}, NoSources), Scan(TRUE, {BANK}, NoSources),
   Scan(TRUE, {PAYMENT}, NoSources)}
    \cup {Scan(TRUE, Consumers, c) : c \in Configured}
    \cup {Scan(FALSE, {}, c) : c \in Configured}
ServedScan == Scan(TRUE, {}, NoSources)

\* The platform calls an operation made.
Calls(lf, lm, up) ==
  [list_functions |-> lf, list_event_source_mappings |-> lm,
   update_event_source_mapping |-> up]
NoCalls == Calls(0, 0, 0)
AddCalls(a, b) ==
  Calls(a.list_functions + b.list_functions,
        a.list_event_source_mappings + b.list_event_source_mappings,
        a.update_event_source_mapping + b.update_event_source_mapping)

\* The positions of the SQS mappings in a listing, in listing order.
RECURSIVE SqsUuids(_, _)
SqsUuids(listed, from) ==
  IF from > Len(listed) THEN << >>
  ELSE IF IsSqsArn(listed[from].EventSourceArn)
    THEN <<from>> \o SqsUuids(listed, from + 1)
    ELSE SqsUuids(listed, from + 1)

\* One turn of the loop of _auto_discover_all_functions: a function with the
\* prefix, not excluded, whose mappings can be listed and hold an SQS mapping
\* joins the functions found.
discover_function(found, function_name, funcs, scan) ==
  LET response == list_event_source_mappings(
                    funcs[function_name], function_name \notin scan.unlistable)
      sqs_mappings == SqsUuids(response.EventSourceMappings, 1)
      listing == Calls(0, 1, 0)
  IN  IF ~StartsWith(function_name, FUNCTION_PREFIX) THEN found
      ELSE IF \E exclude \in EXCLUDE_FUNCTIONS :
                Contains(ServiceName(function_name), exclude) THEN found
      ELSE IF response.raised \/ sqs_mappings = << >>
        THEN [found EXCEPT !.calls = AddCalls(@, listing)]
      ELSE [functions |-> Append(found.functions, FunctionConfig(function_name)),
            calls |-> AddCalls(found.calls, listing)]

RECURSIVE auto_discover_from(_, _, _, _)
auto_discover_from(funcs, scan, i, found) ==
  IF i > Len(ListedFunctions) THEN found
  ELSE auto_discover_from(funcs, scan, i + 1,
         discover_function(found, ListedFunctions[i], funcs, scan))

\* SubscriptionManager._auto_discover_all_functions: the functions with the
\* prefix, not excluded, that have an SQS mapping, in listing order; none when
\* list_functions fails.
auto_discover_all_functions(funcs, scan) ==
  IF ~scan.list_functions_ok
    THEN [functions |-> << >>, calls |-> Calls(1, 0, 0)]
    ELSE auto_discover_from(funcs, scan, 1,
           [functions |-> << >>, calls |-> Calls(1, 0, 0)])

\* What _load_managed_functions returns from a source, with the sources it
\* consulted up to there.
Loaded(found, registry, consulted) ==
  [functions |-> registry, calls |-> found.calls, consulted |-> consulted]

\* _load_managed_functions, were the environment variable preferred to the
\* other configured sources.
or_configured_environment_first(found, scan) ==
  IF found.functions # << >>
    THEN Loaded(found, found.functions, <<"scan">>)
  ELSE IF scan.configured.environment # << >>
    THEN Loaded(found, scan.configured.environment,
                <<"scan", "environment">>)
  ELSE IF scan.configured.ssm # << >>
    THEN Loaded(found, scan.configured.ssm, <<"scan", "environment", "ssm">>)
  ELSE IF scan.configured.dynamodb # << >>
    THEN Loaded(found, scan.configured.dynamodb,
                <<"scan", "environment", "ssm", "dynamodb">>)
  ELSE Loaded(found, scan.configured.tagged,
              <<"scan", "environment", "ssm", "dynamodb", "tagged">>)

\* The sources of _load_managed_functions in their order: the scan, then the
\* parameter store, the table, the tags and the environment, each consulted
\* when those before it yielded nothing (the calls of the later sources are
\* not counted).
or_configured(found, scan) ==
  IF found.functions # << >>
    THEN Loaded(found, found.functions, <<"scan">>)
  ELSE IF scan.configured.ssm # << >>
    THEN Loaded(found, scan.configured.ssm, <<"scan", "ssm">>)
  ELSE IF scan.configured.dynamodb # << >>
    THEN Loaded(found, scan.configured.dynamodb,
                <<"scan", "ssm", "dynamodb">>)
  ELSE IF scan.configured.tagged # << >>
    THEN Loaded(found, scan.configured.tagged,
                <<"scan", "ssm", "dynamodb", "tagged">>)
  ELSE Loaded(found, scan.configured.environment,
              <<"scan", "ssm", "dynamodb", "tagged", "environment">>)

\* SubscriptionManager._load_managed_functions
load_managed_functions(funcs, scan) ==
  or_configured(auto_discover_all_functions(funcs, scan), scan)

\* An error string of a result: its text and the mapping or function it names.
Failure(text, function_name, u) ==
  [text |-> text, about |-> <<ServiceName(function_name), u>>]

\* The loop turn, were a mapping updated whatever its state: a mapping in
\* the wanted state counts as changed again.
toggle_mapping_whatever_state(enable, function_name, listed, u, acc) ==
  LET response == update_event_source_mapping(acc.mappings, u, enable, TRUE)
  IN  [acc EXCEPT !.mappings = response.mappings,
                  !.changed = @ + 1,
                  !.update_calls = @ + 1]

\* The loop turn, were a mapping in the other state taken for one in the
\* wanted state.
toggle_mapping_taken_for_wanted(enable, function_name, listed, u, acc) ==
  IF listed[u].State \in {"Enabled", "Disabled"}
    THEN [acc EXCEPT !.already = @ + 1]
  ELSE acc

\* The loop turn, were the update counted but not applied by the platform.
toggle_mapping_without_effect(enable, function_name, listed, u, acc) ==
  IF listed[u].State = (IF enable THEN "Disabled" ELSE "Enabled")
    THEN [acc EXCEPT !.changed = @ + 1, !.update_calls = @ + 1]
  ELSE IF listed[u].State = (IF enable THEN "Enabled" ELSE "Disabled")
    THEN [acc EXCEPT !.already = @ + 1]
  ELSE acc

\* The loop turn, were a mapping in a transitional state reported as an
\* error of the consumer.
toggle_mapping_rejecting_transition(enable, function_name, listed, u, acc) ==
  IF listed[u].State = (IF enable THEN "Disabled" ELSE "Enabled")
    THEN [acc EXCEPT
            !.mappings =
               update_event_source_mapping(@, u, enable, TRUE).mappings,
            !.changed = @ + 1, !.update_calls = @ + 1]
  ELSE IF listed[u].State = (IF enable THEN "Enabled" ELSE "Disabled")
    THEN [acc EXCEPT !.already = @ + 1]
  ELSE [acc EXCEPT
          !.errors = Append(@, Failure("Mapping is in transition",
                                       function_name, u))]

\* One turn of the loop over sqs_mappings of _enable_function_subscriptions
\* (enable) and _disable_function_subscriptions: a mapping in the other state
\* is updated, a ClientError of the update goes to the errors, another
\* exception leaves the loop; a mapping in the wanted state is counted, one in
\* any other state is left alone.
toggle_mapping(enable, function_name, listed, u, acc) ==
  LET current_state == listed[u].State
      wanted == IF enable THEN "Enabled" ELSE "Disabled"
      other == IF enable THEN "Disabled" ELSE "Enabled"
      served == acc.pending \notin {"update_client", "update_other"}
      response == update_event_source_mapping(acc.mappings, u, enable, served)
  IN  IF current_state = other
        THEN IF ~response.raised
               THEN [acc EXCEPT !.mappings = response.mappings,
                                !.changed = @ + 1,
                                !.update_calls = @ + 1]
             ELSE IF acc.pending = "update_client"
               THEN [acc EXCEPT
                       !.errors = Append(@,
                          Failure(IF enable THEN "Failed to enable mapping"
                                  ELSE "Failed to disable mapping",
                                  function_name, u)),
                       !.update_calls = @ + 1,
                       !.pending = "none"]
             ELSE [acc EXCEPT !.raised = TRUE,
                              !.update_calls = @ + 1,
                              !.pending = "none"]
      ELSE IF current_state = wanted
        THEN [acc EXCEPT !.already = @ + 1]
      ELSE acc

RECURSIVE toggle_mappings(_, _, _, _, _)
toggle_mappings(enable, function_name, listed, todo, acc) ==
  IF todo = << >> \/ acc.raised THEN acc
  ELSE toggle_mappings(enable, function_name, listed, Tail(todo),
         toggle_mapping(enable, function_name, listed, Head(todo), acc))

\* The result, were success not cleared when errors were recorded.
toggle_outcome_keeping_success(function_name, processed, done) ==
  [success |-> ~done.raised,
   mappings_processed |-> processed,
   changed |-> done.changed, already |-> done.already,
   errors |-> IF done.raised
                THEN Append(done.errors,
                       Failure("Failed to list event source mappings",
                               function_name, 0))
                ELSE done.errors,
   mappings |-> done.mappings,
   calls |-> Calls(0, 1, done.update_calls),
   failed |-> done.raised \/ done.errors # << >>]

\* What the loop leaves in the result: an exception that left the loop is
\* reported by the outer except clause as a failure to list.
toggle_outcome(function_name, processed, done) ==
  [success |-> ~done.raised /\ done.errors = << >>,
   mappings_processed |-> processed,
   changed |-> done.changed, already |-> done.already,
   errors |-> IF done.raised
                THEN Append(done.errors,
                       Failure("Failed to list event source mappings",
                               function_name, 0))
                ELSE done.errors,
   mappings |-> done.mappings,
   calls |-> Calls(0, 1, done.update_calls),
   failed |-> done.raised \/ done.errors # << >>]

\* The body, were the mappings toggled although listing them failed.
toggle_function_subscriptions_unlisted(enable, function_name, maps, fault) ==
  toggle_outcome(function_name, Len(SqsUuids(maps, 1)),
    toggle_mappings(enable, function_name, maps, SqsUuids(maps, 1),
      [mappings |-> maps, changed |-> 0, already |-> 0,
       errors |-> << >>, update_calls |-> 0, pending |-> fault,
       raised |-> FALSE]))

\* The body shared by _enable_function_subscriptions and
\* _disable_function_subscriptions: the counts, the errors, the mappings of
\* the function afterwards and the calls made.
toggle_function_subscriptions(enable, function_name, maps, fault) ==
  LET response == list_event_source_mappings(maps, fault # "list")
      listed == response.EventSourceMappings
  IN  IF response.raised
        THEN [success |-> FALSE, mappings_processed |-> 0, changed |-> 0,
              already |-> 0,
              errors |-> <<Failure("Failed to list event source mappings",
                                   function_name, 0)>>,
              mappings |-> maps, calls |-> Calls(0, 1, 0), failed |-> TRUE]
        ELSE toggle_outcome(function_name, Len(SqsUuids(listed, 1)),
               toggle_mappings(enable, function_name, listed,
                 SqsUuids(listed, 1),
                 [mappings |-> maps, changed |-> 0, already |-> 0,
                  errors |-> << >>, update_calls |-> 0, pending |-> fault,
                  raised |-> FALSE]))

\* The result dictionary of _enable_function_subscriptions.
enable_result(t) ==
  [result |-> [success |-> t.success,
               mappings_processed |-> t.mappings_processed,
               mappings_enabled |-> t.changed,
               mappings_already_enabled |-> t.already,
               errors |-> t.errors],
   mappings |-> t.mappings, calls |-> t.calls, failed |-> t.failed]

\* SubscriptionManager._enable_function_subscriptions
enable_function_subscriptions(function_name, maps, fault) ==
  enable_result(toggle_function_subscriptions(TRUE, function_name, maps, fault))

\* The result dictionary of _disable_function_subscriptions.
disable_result(t) ==
  [result |-> [success |-> t.success,
               mappings_processed |-> t.mappings_processed,
               mappings_disabled |-> t.changed,
               mappings_already_disabled |-> t.already,
               errors |-> t.errors],
   mappings |-> t.mappings, calls |-> t.calls, failed |-> t.failed]

\* SubscriptionManager._disable_function_subscriptions
disable_function_subscriptions(function_name, maps, fault) ==
  disable_result(
    toggle_function_subscriptions(FALSE, function_name, maps, fault))

\* The refresh, were the previous registry kept when no source yields one.
refreshed_configuration_keeping_registry(managed, time, loaded) ==
  LET names(configs) ==
        {configs[i].function_name : i \in 1..Len(configs)}
      kept == IF loaded.functions = << >> THEN managed ELSE loaded.functions
  IN  [report |->
         [refreshed |-> TRUE,
          old_count |-> Len(managed),
          new_count |-> Len(kept),
          added_functions |-> names(kept) \ names(managed),
          removed_functions |-> names(managed) \ names(kept),
          current_functions |->
            [i \in 1..Len(kept) |-> kept[i].function_name]],
       managed_functions |-> kept,
       last_config_refresh |-> time,
       calls |-> loaded.calls,
       consulted |-> loaded.consulted]

\* The report, were every function of the new registry reported as added.
refreshed_configuration_all_added(managed, time, loaded) ==
  LET names(configs) ==
        {configs[i].function_name : i \in 1..Len(configs)}
  IN  [report |->
         [refreshed |-> TRUE,
          old_count |-> Len(managed),
          new_count |-> Len(loaded.functions),
          added_functions |-> names(loaded.functions),
          removed_functions |-> names(managed) \ names(loaded.functions),
          current_functions |->
            [i \in 1..Len(loaded.functions) |->
               loaded.functions[i].function_name]],
       managed_functions |-> loaded.functions,
       last_config_refresh |-> time,
       calls |-> loaded.calls,
       consulted |-> loaded.consulted]

\* What refresh_configuration does once the registry was loaded anew.
refreshed_configuration(managed, time, loaded) ==
  LET names(configs) ==
        {configs[i].function_name : i \in 1..Len(configs)}
  IN  [report |->
         [refreshed |-> TRUE,
          old_count |-> Len(managed),
          new_count |-> Len(loaded.functions),
          added_functions |-> names(loaded.functions) \ names(managed),
          removed_functions |-> names(managed) \ names(loaded.functions),
          current_functions |->
            [i \in 1..Len(loaded.functions) |->
               loaded.functions[i].function_name]],
       managed_functions |-> loaded.functions,
       last_config_refresh |-> time,
       calls |-> loaded.calls,
       consulted |-> loaded.consulted]

\* refresh_configuration, were the registry not cached between refreshes.
refresh_configuration_uncached(force, managed, last_refresh, time, funcs, scan) ==
  refreshed_configuration(managed, time, load_managed_functions(funcs, scan))

\* refresh_configuration with a refresh interval of zero seconds.
refresh_configuration_zero_interval(force, managed, last_refresh, time, funcs, scan) ==
  LET time_since_refresh == time - last_refresh
  IN  IF ~force /\ time_since_refresh < 0
        THEN [report |-> [refreshed |-> FALSE,
                          functions_count |-> Len(managed)],
              managed_functions |-> managed,
              last_config_refresh |-> last_refresh,
              calls |-> NoCalls,
              consulted |-> << >>]
        ELSE refreshed_configuration(managed, time,
               load_managed_functions(funcs, scan))

\* SubscriptionManager.refresh_configuration(force)
refresh_configuration(force, managed, last_refresh, time, funcs, scan) ==
  LET time_since_refresh == time - last_refresh
  IN  IF ~force /\ time_since_refresh < CONFIG_REFRESH_INTERVAL
        THEN [report |-> [refreshed |-> FALSE,
                          functions_count |-> Len(managed)],
              managed_functions |-> managed,
              last_config_refresh |-> last_refresh,
              calls |-> NoCalls,
              consulted |-> << >>]
        ELSE refreshed_configuration(managed, time,
               load_managed_functions(funcs, scan))

\* One turn of the loop of handle_subscription_control: the function's result
\* joins functions_processed and is counted as a success or an error.
record_function_result(acc, function_name, service_name, t) ==
  LET function_result ==
        [name \in DOMAIN t.result \cup {"function_name", "service_name"} |->
           CASE name = "function_name" -> function_name
             [] name = "service_name" -> service_name
             [] OTHER -> t.result[name]]
  IN  [functions |-> [acc.functions EXCEPT ![function_name] = t.mappings],
       calls |-> AddCalls(acc.calls, t.calls),
       failed |-> IF t.failed THEN acc.failed \cup {function_name}
                  ELSE acc.failed,
       results |->
         [acc.results EXCEPT
            !.functions_processed = Append(@, function_result),
            !.success_count = IF t.result.success THEN @ + 1 ELSE @,
            !.error_count = IF t.result.success THEN @ ELSE @ + 1]]

RECURSIVE process_functions(_, _, _, _, _)
\* The loop, were it left at the first consumer a call failed for.
process_functions_until_failure(action, managed, i, fault, acc) ==
  IF i > Len(managed) \/ acc.failed # {} THEN acc
  ELSE process_functions(action, managed, i + 1, fault,
         record_function_result(acc,
           managed[i].function_name, managed[i].service_name,
           IF action = "enable"
             THEN enable_function_subscriptions(
                    managed[i].function_name,
                    acc.functions[managed[i].function_name],
                    FaultOf(fault, managed[i].function_name))
             ELSE disable_function_subscriptions(
                    managed[i].function_name,
                    acc.functions[managed[i].function_name],
                    FaultOf(fault, managed[i].function_name))))

\* The loop of handle_subscription_control over managed_functions, from the
\* i-th one on: the report, the platform's functions and the calls so far.
process_functions(action, managed, i, fault, acc) ==
  IF i > Len(managed) THEN acc
  ELSE process_functions(action, managed, i + 1, fault,
         record_function_result(acc,
           managed[i].function_name, managed[i].service_name,
           IF action = "enable"
             THEN enable_function_subscriptions(
                    managed[i].function_name,
                    acc.functions[managed[i].function_name],
                    FaultOf(fault, managed[i].function_name))
             ELSE disable_function_subscriptions(
                    managed[i].function_name,
                    acc.functions[managed[i].function_name],
                    FaultOf(fault, managed[i].function_name))))

\* What handle_subscription_control returns and leaves behind after its loop.
control_results(refresh, done) ==
  [raised |-> FALSE, results |-> done.results,
   failed |-> done.failed,
   functions |-> done.functions,
   managed_functions |-> refresh.managed_functions,
   last_config_refresh |-> refresh.last_config_refresh,
   calls |-> done.calls]

\* handle_subscription_control after its refresh of the configuration.
apply_control(action, control_message, funcs, fault, refresh) ==
  control_results(refresh,
    process_functions(action, refresh.managed_functions, 1, fault,
      [functions |-> funcs, calls |-> refresh.calls, failed |-> {},
       results |->
         [action |-> action,
          operator |-> Get(control_message, "operator", "system"),
          reason |-> Get(control_message, "reason", "Manual control"),
          functions_processed |-> << >>,
          success_count |-> 0, error_count |-> 0, errors |-> << >>]]))

\* SubscriptionManager.handle_subscription_control(control_message)
handle_subscription_control(control_message, managed, last_refresh, time, funcs, fault, scan) ==
  LET action == Lower(Get(control_message, "action", ""))
  IN  IF ~control_message.is_mapping \/ action \notin {"enable", "disable"}
        THEN [raised |-> TRUE, results |-> [action |-> action],
              functions |-> funcs, managed_functions |-> managed,
              last_config_refresh |-> last_refresh, calls |-> NoCalls,
              failed |-> {}]
        ELSE apply_control(action, control_message, funcs, fault,
               refresh_configuration(FALSE, managed, last_refresh, time,
                                     funcs, scan))

\* The status of one function, were a function without SQS mappings not
\* told apart: all of its none are Enabled.
function_status_without_no_mappings(function_name, service_name, response) ==
  LET listed == response.EventSourceMappings
      sqs_mappings == SqsUuids(listed, 1)
      in_state(state) ==
        Cardinality({k \in 1..Len(sqs_mappings) :
                       listed[sqs_mappings[k]].State = state})
      enabled_count == in_state("Enabled")
      disabled_count == in_state("Disabled")
      total_count == Len(sqs_mappings)
  IN  IF response.raised
        THEN [function_name |-> function_name,
              service_name |-> service_name,
              overall_status |-> "error"]
        ELSE [function_name |-> function_name,
              service_name |-> service_name,
              overall_status |->
                IF enabled_count = total_count THEN "enabled"
                ELSE IF disabled_count = total_count THEN "disabled"
                ELSE "mixed",
              total_mappings |-> total_count,
              enabled_mappings |-> enabled_count,
              disabled_mappings |-> disabled_count,
              mappings |->
                [k \in 1..Len(sqs_mappings) |->
                   [uuid |-> sqs_mappings[k],
                    state |-> listed[sqs_mappings[k]].State]]]

\* The status of one function in get_subscription_status.
function_status(function_name, service_name, response) ==
  LET listed == response.EventSourceMappings
      sqs_mappings == SqsUuids(listed, 1)
      in_state(state) ==
        Cardinality({k \in 1..Len(sqs_mappings) :
                       listed[sqs_mappings[k]].State = state})
      enabled_count == in_state("Enabled")
      disabled_count == in_state("Disabled")
      total_count == Len(sqs_mappings)
  IN  IF response.raised
        THEN [function_name |-> function_name,
              service_name |-> service_name,
              overall_status |-> "error"]
        ELSE [function_name |-> function_name,
              service_name |-> service_name,
              overall_status |->
                IF total_count = 0 THEN "no_mappings"
                ELSE IF enabled_count = total_count THEN "enabled"
                ELSE IF disabled_count = total_count THEN "disabled"
                ELSE "mixed",
              total_mappings |-> total_count,
              enabled_mappings |-> enabled_count,
              disabled_mappings |-> disabled_count,
              mappings |->
                [k \in 1..Len(sqs_mappings) |->
                   [uuid |-> sqs_mappings[k],
                    state |-> listed[sqs_mappings[k]].State]]]

\* The summary counter a function's overall status adds to.
SummaryKey(overall_status) ==
  CASE overall_status = "enabled" -> "enabled_functions"
    [] overall_status = "disabled" -> "disabled_functions"
    [] overall_status = "mixed" -> "mixed_state_functions"
    [] overall_status = "error" -> "error_functions"
    [] OTHER -> "none"

\* One turn of the loop of get_subscription_status.
record_function_status(acc, status) ==
  [calls |-> AddCalls(acc.calls, Calls(0, 1, 0)),
   failed |-> IF status.overall_status = "error"
                THEN acc.failed \cup {status.function_name}
                ELSE acc.failed,
   status |->
     [functions |-> Append(acc.status.functions, status),
      summary |->
        [key \in DOMAIN acc.status.summary |->
           IF key = SummaryKey(status.overall_status)
             THEN acc.status.summary[key] + 1
             ELSE acc.status.summary[key]]]]

\* The loop of get_subscription_status over managed_functions, from the i-th
\* one on.
RECURSIVE status_of_functions(_, _, _, _, _)
status_of_functions(managed, i, funcs, fault, acc) ==
  IF i > Len(managed) THEN acc
  ELSE status_of_functions(managed, i + 1, funcs, fault,
         record_function_status(acc,
           function_status(managed[i].function_name, managed[i].service_name,
             list_event_source_mappings(
               funcs[managed[i].function_name],
               FaultOf(fault, managed[i].function_name) # "list"))))

\* SubscriptionManager.get_subscription_status of the centralized manager
manager_get_subscription_status(managed, funcs, fault) ==
  status_of_functions(managed, 1, funcs, fault,
    [calls |-> NoCalls, failed |-> {},
     status |->
       [functions |-> << >>,
        summary |-> [total_functions |-> Len(managed),
                     enabled_functions |-> 0, disabled_functions |-> 0,
                     mixed_state_functions |-> 0, error_functions |-> 0]]])

\* The events of the manager's lambda_handler: an SNS delivery of control
\* messages, each the JSON text of a message, or a direct invocation.
JsonText(value) == [well_formed |-> TRUE, value |-> value]
MalformedText == [well_formed |-> FALSE, value |-> NotAMapping]
\* json.loads(text)
json_loads(text) == [raised |-> ~text.well_formed, value |-> text.value]
SnsRecord(message) ==
  [EventSource |-> "aws:sns", Sns |-> [Message |-> JsonText(message)]]
SnsEvent(records) == Mapping({<<"Records", records>>})
DirectEvent(items) == Mapping(items)
\* 'Records' in event
HasKey(event, key) == \E p \in event.items : p[1] = key

\* One record of the loop of lambda_handler, its control message handled.
record_handled(acc, h) ==
  [functions |-> h.functions,
   calls |-> AddCalls(acc.calls, h.calls),
   failed |-> acc.failed \cup h.failed,
   results |-> IF h.raised THEN acc.results
               ELSE Append(acc.results, h.results),
   raised |-> h.raised]

\* The loop of lambda_handler over event['Records'], from the i-th one on.
RECURSIVE handle_records(_, _, _, _, _, _)
handle_records(records, i, managed, time, fault, acc) ==
  IF i > Len(records) \/ acc.raised THEN acc
  ELSE IF records[i].EventSource # "aws:sns"
    THEN handle_records(records, i + 1, managed, time, fault, acc)
  ELSE IF json_loads(records[i].Sns.Message).raised
    THEN [acc EXCEPT !.raised = TRUE]
  ELSE handle_records(records, i + 1, managed, time, fault,
         record_handled(acc,
           handle_subscription_control(
             json_loads(records[i].Sns.Message).value, managed, time, time,
             acc.functions, fault, ServedScan)))

\* The response of the except clause of lambda_handler.
InternalServerError ==
  [statusCode |-> 500, body |-> [message |-> "Internal server error"]]

\* What an invocation of lambda_handler leaves: its response, the platform's
\* functions, the calls made (those of the construction first) and the
\* functions a call failed for.
Answer(constructed, response, funcs_after, calls, failed) ==
  [response |-> response, functions |-> funcs_after,
   calls |-> AddCalls(constructed.calls, calls), failed |-> failed]

\* The branch for an SNS delivery, were the results of the records handled
\* before a failing one returned.
records_answer_partial(constructed, records) ==
  Answer(constructed,
         [statusCode |-> IF records.raised THEN 500 ELSE 200,
          body |-> [message |-> "Subscription control processed",
                    results |-> records.results]],
         records.functions, records.calls, records.failed)

\* The branch of lambda_handler for an SNS delivery.
records_answer(constructed, records) ==
  Answer(constructed,
         IF records.raised THEN InternalServerError
         ELSE [statusCode |-> 200,
               body |-> [message |-> "Subscription control processed",
                         results |-> records.results]],
         records.functions, records.calls, records.failed)

\* The branch of lambda_handler for a direct 'status' invocation.
status_answer(constructed, funcs, status) ==
  Answer(constructed,
         [statusCode |-> 200,
          body |-> [message |-> "Subscription status retrieved",
                    status |-> status.status]],
         funcs, status.calls, status.failed)

\* The branch of lambda_handler for a direct 'refresh' invocation.
refresh_answer(constructed, funcs, refresh) ==
  Answer(constructed,
         [statusCode |-> 200,
          body |-> [message |-> "Configuration refresh processed",
                    result |-> refresh.report]],
         funcs, refresh.calls, {})

\* The branch of lambda_handler for a direct 'enable' or 'disable' invocation.
control_answer(constructed, action, control) ==
  Answer(constructed,
         IF control.raised THEN InternalServerError
         ELSE [statusCode |-> 200,
               body |-> [message |-> <<"Subscription", action, "processed">>,
                         result |-> control.results]],
         control.functions, control.calls, control.failed)

\* lambda_handler, were every event that is neither a delivery nor a status
\* or refresh request passed on as a control message.
serve_event_without_else(event, time, funcs, fault, scan, constructed) ==
  LET action == Get(event, "action", "none")
  IN  IF ~event.is_mapping
        THEN Answer(constructed, InternalServerError, funcs, NoCalls, {})
      ELSE IF HasKey(event, "Records")
        THEN records_answer(constructed,
               handle_records(Get(event, "Records", << >>), 1,
                 constructed.functions, time, fault,
                 [functions |-> funcs, calls |-> NoCalls, failed |-> {},
                  results |-> << >>, raised |-> FALSE]))
      ELSE IF action = "status"
        THEN status_answer(constructed, funcs,
               manager_get_subscription_status(
                 constructed.functions, funcs, fault))
      ELSE IF action = "refresh"
        THEN refresh_answer(constructed, funcs,
               refresh_configuration(Get(event, "force", FALSE),
                 constructed.functions, time, time, funcs, scan))
      ELSE control_answer(constructed, action,
             handle_subscription_control(event, constructed.functions,
               time, time, funcs, fault, ServedScan))

\* lambda_handler once the SubscriptionManager is constructed.
serve_event(event, time, funcs, fault, scan, constructed) ==
  LET action == Get(event, "action", "none")
  IN  IF ~event.is_mapping
        THEN Answer(constructed, InternalServerError, funcs, NoCalls, {})
      ELSE IF HasKey(event, "Records")
        THEN records_answer(constructed,
               handle_records(Get(event, "Records", << >>), 1,
                 constructed.functions, time, fault,
                 [functions |-> funcs, calls |-> NoCalls, failed |-> {},
                  results |-> << >>, raised |-> FALSE]))
      ELSE IF action = "status"
        THEN status_answer(constructed, funcs,
               manager_get_subscription_status(
                 constructed.functions, funcs, fault))
      ELSE IF action = "refresh"
        THEN refresh_answer(constructed, funcs,
               refresh_configuration(Get(event, "force", FALSE),
                 constructed.functions, time, time, funcs, scan))
      ELSE IF action \in {"enable", "disable"}
        THEN control_answer(constructed, action,
               handle_subscription_control(event, constructed.functions,
                 time, time, funcs, fault, ServedScan))
      ELSE Answer(constructed,
                  [statusCode |-> 400,
                   body |-> [error |->
                               "Invalid event format or missing action"]],
                  funcs, NoCalls, {})

\* lambda_handler(event, context) of the centralized manager: it constructs
\* a SubscriptionManager, which scans the registry, and serves the event.
lambda_handler(event, time, funcs, fault, scan) ==
  serve_event(event, time, funcs, fault, scan,
              load_managed_functions(funcs, scan))

\* -------------------------------------------- the manager and its platform
\* What an operation of the manager leaves to look at.
MIdle(op) == [op |-> op, raised |-> FALSE, calls |-> NoCalls]

\* The centralized manager on its own: no consumer-local handler runs.
ConsumerAbsent ==
  /\ mappings = << >>
  /\ built = "ErrorHandler"
  /\ uuid = NoUuid
  /\ last = Idle("none")

\* The control messages sent to the manager.
ManagerMessages ==
  {Mapping({<<"action", a>>, <<"operator", "ops">>}) :
     a \in {"enable", "disable", "pause", "ENABLE"}}
    \cup {Mapping({<<"action", "disable">>, <<"operator", "ops">>,
                   <<"target_service", ServiceName(PAYMENT)>>}),
          Mapping({<<"action", "enable">>, <<"source", "test_script">>,
                   <<"service", ServiceName(PAYMENT)>>})}

\* manager = SubscriptionManager(): the registry is scanned.
ManagerInit ==
  /\ ConsumerAbsent
  /\ QueueAbsent
  /\ TopicAbsent
  /\ NothingInFlight
  /\ functions \in PlatformStates
  /\ now = 0
  /\ \E scan \in Scans :
       managed_functions = load_managed_functions(functions, scan).functions
  /\ last_config_refresh = now
  /\ mlast = MIdle("construct")

\* manager.handle_subscription_control(control_message)
HandleSubscriptionControl(control_message, fault, scan) ==
  \E h \in {handle_subscription_control(
             control_message, managed_functions, last_config_refresh, now,
             functions, fault, scan)} :
      /\ functions' = h.functions
      /\ managed_functions' = h.managed_functions
      /\ last_config_refresh' = h.last_config_refresh
      /\ mlast' = [op |-> "handle_subscription_control",
                   control_message |-> control_message, fault |-> fault,
                   raised |-> h.raised, results |-> h.results,
                   calls |-> h.calls, failed |-> h.failed]
      /\ UNCHANGED now
      /\ UNCHANGED <<cvars, qvars, tvars, inflight>>

\* manager.refresh_configuration(force)
RefreshConfiguration(force, scan) ==
  \E r \in {refresh_configuration(force, managed_functions,
                                 last_config_refresh, now, functions, scan)} :
      /\ managed_functions' = r.managed_functions
      /\ last_config_refresh' = r.last_config_refresh
      /\ mlast' = [op |-> "refresh_configuration", force |-> force,
                   scan |-> scan, consulted |-> r.consulted,
                   raised |-> FALSE, report |-> r.report, calls |-> r.calls]
      /\ UNCHANGED <<functions, now>>
      /\ UNCHANGED <<cvars, qvars, tvars, inflight>>

\* Time passes.
Tick(delay) ==
  /\ now + delay <= MaxTime
  /\ now' = now + delay
  /\ mlast' = MIdle("tick")
  /\ UNCHANGED <<functions, managed_functions, last_config_refresh>>
  /\ UNCHANGED <<cvars, qvars, tvars, inflight>>

\* Provisioning gives the bank account consumer another SQS mapping.
CreateSqsMapping(mapping) ==
  /\ Len(functions[BANK]) < MaxBindings
  /\ functions' = [functions EXCEPT ![BANK] = Append(@, mapping)]
  /\ mlast' = MIdle("platform")
  /\ UNCHANGED <<managed_functions, last_config_refresh, now>>
  /\ UNCHANGED <<cvars, qvars, tvars, inflight>>

\* The platform, an operator or a consumer's own error handler changes the
\* state of an SQS mapping of a consumer.
SetMappingState(function_name, u, state) ==
  /\ u \in 1..Len(functions[function_name])
  /\ IsSqsArn(functions[function_name][u].EventSourceArn)
  /\ functions[function_name][u].State # state
  /\ functions' = [functions EXCEPT ![function_name][u].State = state]
  /\ mlast' = MIdle("platform")
  /\ UNCHANGED <<managed_functions, last_config_refresh, now>>
  /\ UNCHANGED <<cvars, qvars, tvars, inflight>>

\* The inputs that matter to a call: the scan's when the refresh is due, the
\* faults' when the action is accepted.
RefreshDue == now - last_config_refresh >= CONFIG_REFRESH_INTERVAL
Accepted(control_message) ==
  Lower(Get(control_message, "action", "")) \in {"enable", "disable"}

\* A fault meets a call: the consumer is toggled, and for a fault of the
\* update one of its SQS mappings is in the state that is updated. (A fault
\* that meets no call changes nothing.)
Meets(fault, action, managed, funcs) ==
  \A c \in Consumers :
    \/ fault[c] = "none"
    \/ /\ \E i \in 1..Len(managed) : managed[i].function_name = c
       /\ \/ fault[c] = "list"
          \/ \E u \in 1..Len(funcs[c]) :
               /\ IsSqsArn(funcs[c][u].EventSourceArn)
               /\ funcs[c][u].State =
                    IF action = "enable" THEN "Disabled" ELSE "Enabled"

\* The manager within one refresh interval: control messages meet faults of
\* the platform, the registry changes by forced refreshes.
ManagerInputs ==
  {input \in ManagerMessages \X Faults :
     /\ ~Accepted(input[1]) => input[2] = NoFaults
     /\ Meets(input[2], Lower(Get(input[1], "action", "")),
              managed_functions, functions)}

ManagerNext ==
  \/ \E input \in ManagerInputs :
       HandleSubscriptionControl(input[1], input[2], ServedScan)
  \/ \E scan \in Scans : RefreshConfiguration(TRUE, scan)
  \/ \E mapping \in SqsMappings : CreateSqsMapping(mapping)
  \/ \E function_name \in Consumers, u \in 1..(MaxBindings + 1),
        state \in BindingStates :
       SetMappingState(function_name, u, state)

SpecManager == ManagerInit /\ [][ManagerNext]_vars

\* The manager over time, its platform calls served: the registry is
\* refreshed when the interval has passed or on demand.
ControlInputs ==
  {input \in ManagerMessages \X Scans :
     ~(Accepted(input[1]) /\ RefreshDue) => input[2] = ServedScan}
RefreshInputs ==
  {input \in BOOLEAN \X Scans :
     ~(input[1] \/ RefreshDue) => input[2] = ServedScan}

RefreshNext ==
  \/ \E input \in ControlInputs :
       HandleSubscriptionControl(input[1], NoFaults, input[2])
  \/ \E input \in RefreshInputs : RefreshConfiguration(input[1], input[2])
  \/ \E delay \in Delays : Tick(delay)
  \/ \E mapping \in SqsMappings : CreateSqsMapping(mapping)
  \/ \E function_name \in Consumers, u \in 1..(MaxBindings + 1),
        state \in BindingStates :
       SetMappingState(function_name, u, state)

SpecRefresh == ManagerInit /\ [][RefreshNext]_vars

\* What the configured sources of the registry can hold beside nothing: any
\* function, the manager itself included (they are not filtered).
RegistrySources ==
  Configured
    \cup {Sources(<<FunctionConfig(MANAGER)>>, << >>, << >>, << >>),
          Sources(<< >>, <<FunctionConfig(PAYMENT)>>,
                  <<FunctionConfig(BANK)>>, << >>),
          Sources(<< >>, << >>, <<FunctionConfig(BANK)>>,
                  <<FunctionConfig(PAYMENT)>>),
          Sources(<< >>, << >>, << >>, <<FunctionConfig(PAYMENT)>>)}
RegistryScans ==
  Scans \cup {Scan(TRUE, Consumers, c) : c \in RegistrySources}
        \cup {Scan(FALSE, {}, c) : c \in RegistrySources}

\* manager = SubscriptionManager(), whatever its sources hold.
DiscoverInit ==
  /\ ConsumerAbsent
  /\ QueueAbsent
  /\ TopicAbsent
  /\ NothingInFlight
  /\ functions \in PlatformStates
  /\ now = 0
  /\ \E scan \in RegistryScans :
       managed_functions = load_managed_functions(functions, scan).functions
  /\ last_config_refresh = now
  /\ mlast = MIdle("construct")

\* The registry is scanned again and again while the platform changes.
DiscoverNext ==
  \/ \E scan \in RegistryScans : RefreshConfiguration(TRUE, scan)
  \/ \E mapping \in SqsMappings : CreateSqsMapping(mapping)
  \/ \E function_name \in Consumers, u \in 1..(MaxBindings + 1),
        state \in BindingStates :
       SetMappingState(function_name, u, state)

SpecDiscover == DiscoverInit /\ [][DiscoverNext]_vars

\* The events delivered to the manager's lambda_handler.
LambdaEvents ==
  {SnsEvent(<<SnsRecord(message)>>) :
     message \in {Mapping({<<"action", a>>, <<"operator", "ops">>}) :
                    a \in {"enable", "disable", "pause"}}}
    \cup {DirectEvent({<<"action", a>>}) :
            a \in {"enable", "disable", "pause", "status"}}
    \cup {DirectEvent({<<"action", "refresh">>, <<"force", force>>}) :
            force \in BOOLEAN}
    \cup {SnsEvent(<<[EventSource |-> "aws:sns",
                      Sns |-> [Message |-> MalformedText]]>>),
          DirectEvent({<<"operation", "enable">>}),
          NotAMapping}

\* lambda_handler(event, context): one invocation, with a manager of its own.
LambdaHandler(event, fault, scan) ==
  \E r \in {lambda_handler(event, now, functions, fault, scan)} :
      /\ functions' = r.functions
      /\ mlast' = [op |-> "lambda_handler", event |-> event, scan |-> scan,
                   raised |-> FALSE, response |-> r.response,
                   calls |-> r.calls, failed |-> r.failed]
      /\ UNCHANGED <<managed_functions, last_config_refresh, now>>
      /\ UNCHANGED <<cvars, qvars, tvars, inflight>>

\* No manager object outlives an invocation.
LambdaInit ==
  /\ ConsumerAbsent
  /\ QueueAbsent
  /\ TopicAbsent
  /\ NothingInFlight
  /\ functions \in PlatformStates
  /\ managed_functions = << >>
  /\ last_config_refresh = 0
  /\ now = 0
  /\ mlast = MIdle("none")

\* The events whose handling toggles mappings, and those that list them.
Toggles(event) ==
  \/ Get(event, "action", "none") \in {"enable", "disable"}
  \/ \E i \in 1..Len(Get(event, "Records", << >>)) :
       Accepted(json_loads(Get(event, "Records", << >>)[i].Sns.Message).value)
Lists(event) == Toggles(event) \/ Get(event, "action", "none") = "status"

\* The action an event asks for: that of its first record, or its own.
EventAction(event) ==
  IF HasKey(event, "Records")
    THEN Lower(Get(json_loads(Get(event, "Records", << >>)[1].Sns.Message).value,
                   "action", ""))
    ELSE Get(event, "action", "none")

\* An invocation meets a scan that is not served in full, or faults of its
\* later calls; a fault that meets no call of the event is left out, and so
\* are the partial scans for an event that does not use the registry; the
\* calls for a delivery of several messages are served.
LambdaInputs ==
  {input \in LambdaEvents \X Faults \X Scans :
     LET event == input[1]
         fault == input[2]
         scan == input[3]
     IN  /\ fault # NoFaults => (scan = ServedScan /\ Lists(event))
         /\ ~(Lists(event) \/ Get(event, "action", "none") = "refresh")
              => scan \in {ServedScan, Scan(FALSE, {}, NoSources)}
         /\ ~Toggles(event)
              => \A c \in Consumers : fault[c] \in {"none", "list"}
         /\ Meets(fault, EventAction(event),
                  load_managed_functions(functions, ServedScan).functions,
                  functions)}

LambdaNext ==
  \/ \E input \in LambdaInputs : LambdaHandler(input[1], input[2], input[3])
  \/ \E mapping \in SqsMappings : CreateSqsMapping(mapping)
  \/ \E function_name \in Consumers, u \in 1..(MaxBindings + 1),
        state \in BindingStates :
       SetMappingState(function_name, u, state)

SpecLambda == LambdaInit /\ [][LambdaNext]_vars

\* SNS deliveries of several control messages: three of which the second has
\* an action that is not accepted, and two that are both accepted.
ControlRecord(action) ==
  SnsRecord(Mapping({<<"action", action>>, <<"operator", "ops">>}))
BatchEvent ==
  SnsEvent(<<ControlRecord("enable"), ControlRecord("pause"),
             ControlRecord("disable")>>)
BatchEvents ==
  {BatchEvent, SnsEvent(<<ControlRecord("disable"), ControlRecord("enable")>>)}

\* The manager's lambda_handler receiving such deliveries, its platform calls
\* served after the scan.
BatchNext ==
  \/ \E event \in BatchEvents, scan \in Scans :
       LambdaHandler(event, NoFaults, scan)
  \/ \E mapping \in SqsMappings : CreateSqsMapping(mapping)
  \/ \E function_name \in Consumers, u \in 1..(MaxBindings + 1),
        state \in BindingStates :
       SetMappingState(function_name, u, state)

SpecBatch == LambdaInit /\ [][BatchNext]_vars

\* ------------------------------------------------------------ properties
\* handle_error has returned (no exception left it).
Returned == last.op = "handle_error" /\ ~last.raised
Kind == last.result.error_info.error_type
Recorded == "subscription_disabled" \in DOMAIN last.result.error_info
Disabled == last.result.error_info.subscription_disabled
HasManager == built # "ErrorHandler"
StateOf(u) == mappings[u].State

\* C1 as claimed: on a failure classified server_error handle_error always
\* returns stop_subscription, has called disable() exactly once and has
\* recorded its outcome in error_info.subscription_disabled.
C1_AlwaysDisablesOnce ==
  (Returned /\ Kind = SERVER_ERROR) =>
    /\ last.result.action = "stop_subscription"
    /\ last.disable_calls = 1
    /\ Recorded

\* C1 as amended: on a failure classified server_error, every call of
\* handle_error that returns has the action stop_subscription; a handler
\* that has a subscription manager has called disable() exactly once and
\* has recorded in subscription_disabled whether the binding was disabled:
\* true when the update went through and the binding is Disabled, false when
\* the binding is unknown or the update failed; a handler without a manager
\* has called nothing and recorded nothing.
C1_ServerErrorDisablesOnce ==
  (Returned /\ Kind = SERVER_ERROR) =>
    /\ last.result.action = "stop_subscription"
    /\ HasManager =>
         /\ last.disable_calls = 1
         /\ Recorded
         /\ Disabled =>
              last.update_calls = 1 /\ ~last.failed
                /\ StateOf(uuid) = "Disabled"
         /\ ~Disabled => (uuid = NoUuid \/ last.failed)
    /\ ~HasManager => (last.disable_calls = 0 /\ ~Recorded)

C1_Witness ==
  /\ Returned /\ Kind = SERVER_ERROR /\ HasManager
  /\ last.disable_calls = 1 /\ Recorded /\ ~Disabled /\ last.failed

\* C2: on a failure classified client_error handle_error returns continue,
\* calls neither disable() nor the platform and leaves every binding and the
\* manager as they were.
C2_ClientErrorContinues ==
  [][(/\ last'.op = "handle_error" /\ ~last'.raised
      /\ last'.result.error_info.error_type = CLIENT_ERROR)
     => /\ last'.result.action = "continue"
        /\ last'.disable_calls = 0 /\ last'.update_calls = 0
        /\ mappings' = mappings /\ uuid' = uuid /\ built' = built]_vars

C2_Witness ==
  /\ Returned /\ Kind = CLIENT_ERROR /\ last.result.action = "continue"
  /\ uuid # NoUuid /\ StateOf(uuid) = "Enabled"

\* C3 as claimed: handle_error never raises; for every exception, message
\* context and status code it returns a result with an action and error_info.
C3_NeverRaises ==
  last.op = "handle_error" =>
    /\ ~last.raised
    /\ last.result.action \in {"continue", "stop_subscription"}
    /\ "error_info" \in DOMAIN last.result

Classified == last.op = "classify_error"
Classification == last.result.error_type

\* C4: classify_error returns client_error for every status code in
\* 400..499 and server_error for every status code in 500..599, whatever the
\* exception.
C4_StatusCodeDecides ==
  Classified =>
    /\ last.status_code \in 400..499 => Classification = CLIENT_ERROR
    /\ last.status_code \in 500..599 => Classification = SERVER_ERROR

C4_Witness ==
  /\ Classified /\ last.status_code = 400
  /\ last.error.name = "ConnectionError" /\ Classification = CLIENT_ERROR

\* C5 as claimed: without a status code, a failure whose message text
\* contains "timeout" is a network_error, and one whose text says invalid or
\* missing is a validation_error.
C5_TextDecides ==
  (Classified /\ last.status_code = NoStatus) =>
    /\ "timeout" \in Fragments(last.error.text)
         => Classification = NETWORK_ERROR
    /\ ("timeout" \notin Fragments(last.error.text)
          /\ Fragments(last.error.text) \cap {"invalid", "missing"} # {})
         => Classification = VALIDATION_ERROR

\* C5 as amended: without a status code, classify_error decides by the type
\* name of the exception alone, matched exactly: ConnectionError,
\* TimeoutError and ConnectTimeout are network_error, ValueError,
\* ValidationError and KeyError are validation_error, every other type is
\* processing_error whatever its message text says.
C5_TypeNameDecides ==
  (Classified /\ last.status_code = NoStatus) =>
    /\ Classification = NETWORK_ERROR <=>
         last.error.name \in
           {"ConnectionError", "TimeoutError", "ConnectTimeout"}
    /\ Classification = VALIDATION_ERROR <=>
         last.error.name \in {"ValueError", "ValidationError", "KeyError"}
    /\ Classification \in
         {NETWORK_ERROR, VALIDATION_ERROR, PROCESSING_ERROR}

C5_Witness ==
  /\ Classified /\ last.status_code = NoStatus
  /\ last.error.name = "Exception"
  /\ "timeout" \in Fragments(last.error.text)
  /\ Classification = PROCESSING_ERROR

\* C6: classify_error is total and without side effects: for every exception
\* and status code, 0 and the codes outside 400..599 included, it returns one
\* of the five kinds, raises nothing, calls nothing and changes no binding.
C6_ClassifyTotalAndPure ==
  [][last'.op = "classify_error"
     => /\ last'.result.error_type \in ErrorType
        /\ ~last'.raised
        /\ last'.update_calls = 0 /\ last'.disable_calls = 0
        /\ mappings' = mappings /\ uuid' = uuid /\ built' = built]_vars

C6_Witness ==
  /\ Classified /\ last.status_code = 600
  /\ last.error.name = "KeyError" /\ Classification = VALIDATION_ERROR

\* C7: on a network_error, validation_error or processing_error
\* handle_error returns continue without calling disable(); retry is true
\* only for a network_error or a server_error, and false for every
\* validation_error and processing_error.
C7_OtherErrorsContinue ==
  Returned =>
    /\ Kind \in {NETWORK_ERROR, VALIDATION_ERROR, PROCESSING_ERROR} =>
         /\ last.result.action = "continue"
         /\ last.disable_calls = 0 /\ last.update_calls = 0
    /\ last.result.retry => Kind \in {NETWORK_ERROR, SERVER_ERROR}
    /\ Kind \in {VALIDATION_ERROR, PROCESSING_ERROR} => ~last.result.retry

C7_Witness ==
  /\ Returned /\ Kind = NETWORK_ERROR
  /\ last.result.action = "continue" /\ last.result.retry

\* C8 as claimed: when the bank account consumer has an Enabled SQS binding
\* and the platform serves its calls, a message whose exception maps to
\* status code 500 is classified server_error, the action is
\* stop_subscription with subscription_disabled = true, and get_status()
\* right afterwards returns false.
C8_EndToEndStop ==
  [][(/\ last'.op = "process_bank_account_message"
      /\ last'.status_code = 500 /\ ~last'.failed
      /\ \E u \in KnownUuids(mappings) : mappings[u].State = "Enabled")
     => /\ last'.result.error_info.error_type = SERVER_ERROR
        /\ last'.result.action = "stop_subscription"
        /\ "subscription_disabled" \in DOMAIN last'.result.error_info
        /\ last'.result.error_info.subscription_disabled
        /\ ~get_subscription_status(uuid', mappings', TRUE)]_vars

C10_DiscoversWhenCalled ==
  [][(/\ last'.op \in {"disable_subscription", "enable_subscription"}
      /\ uuid = NoUuid /\ ~last'.failed
      /\ \E u \in KnownUuids(mappings) :
           mappings[u].State =
             IF last'.op = "disable_subscription"
               THEN "Enabled" ELSE "Disabled")
     => /\ last'.ret
        /\ \E u \in KnownUuids(mappings') :
             mappings'[u].State =
               IF last'.op = "disable_subscription"
                 THEN "Disabled" ELSE "Enabled"]_vars

\* C11: the consumer-local disable(), enable() and get_status() never raise:
\* when the binding is unknown or the platform call fails they return false,
\* and they leave the manager as it was, usable for the next call.
C11_TogglesNeverRaise ==
  [][(last'.op \in {"disable_subscription", "enable_subscription",
                    "get_subscription_status"})
     => /\ ~last'.raised
        /\ (uuid = NoUuid \/ last'.failed) => ~last'.ret
        /\ uuid' = uuid /\ built' = built]_vars

\* An enable() that succeeds right after a disable() the platform failed.
C11_Witness ==
  /\ last.op = "enable_subscription" /\ last.ret
  /\ uuid # NoUuid
  /\ last.prev.op = "disable_subscription" /\ ~last.prev.ret

\* C12: a manager constructed without a UUID discovers it: it holds the
\* UUID of the function's SQS binding when there is exactly one, none when the
\* function has no SQS binding, and none, without raising, when the listing
\* fails.
C12_DiscoverBinding ==
  (last.op = "construct" /\ HasManager /\ last.result.given = NoUuid) =>
    /\ ~last.raised
    /\ last.failed => uuid = NoUuid
    /\ (~last.failed /\ KnownUuids(mappings) = {}) => uuid = NoUuid
    /\ (~last.failed /\ Cardinality(KnownUuids(mappings)) = 1)
         => uuid \in KnownUuids(mappings)

\* The one SQS binding is found behind a binding of another source.
C12_Witness ==
  /\ last.op = "construct" /\ HasManager /\ last.result.given = NoUuid
  /\ ~last.failed
  /\ KnownUuids(mappings) = {2} /\ uuid = 2

\* C13 as claimed: after a disable() of the consumer that succeeded none of
\* its SQS bindings is Enabled, and after an enable() that succeeded none is
\* Disabled.
C13_TogglesEveryBinding ==
  /\ (last.op = "disable_subscription" /\ last.ret)
       => \A u \in KnownUuids(mappings) : StateOf(u) # "Enabled"
  /\ (last.op = "enable_subscription" /\ last.ret)
       => \A u \in KnownUuids(mappings) : StateOf(u) # "Disabled"

\* C15 as claimed: a control message for this consumer (or for all) whose
\* action is not exactly "enable" or "disable" is rejected, the handler
\* returning false, and no binding update is requested for it.
C15_OnlyEnableOrDisable ==
  (/\ last.op = "handle_subscription_control_message"
   /\ last.result.message.is_mapping
   /\ Get(last.result.message, "service", "") \in {"", SERVICE_NAME}
   /\ Get(last.result.message, "action", "") \notin {"enable", "disable"})
    => (~last.ret /\ last.update_calls = 0)

\* C14: a control message with an action other than "enable" or "disable"
\* (e.g. "pause") is rejected before any platform call: none of
\* list_functions, list_event_source_mappings and update_event_source_mapping
\* is called for that request, whether handle_subscription_control is called
\* on a manager or reached through lambda_handler by an SNS delivery.
C14_RejectedBeforeAnyCall ==
  /\ (mlast.op = "handle_subscription_control"
       /\ ~Accepted(mlast.control_message))
        => (mlast.raised /\ mlast.calls = NoCalls)
  /\ (mlast.op = "lambda_handler" /\ HasKey(mlast.event, "Records")
       /\ ~Toggles(mlast.event))
        => (mlast.response.statusCode = 500 /\ mlast.calls = NoCalls)

\* The SQS bindings of a consumer on the platform, and the consumers whose
\* SQS bindings are all in one state.
BindingCount(funcs, function_name) == Len(SqsUuids(funcs[function_name], 1))
AllBindings(funcs, managed, state) ==
  \A i \in 1..Len(managed) :
    \A u \in 1..Len(funcs[managed[i].function_name]) :
      IsSqsArn(funcs[managed[i].function_name][u].EventSourceArn)
        => funcs[managed[i].function_name][u].State = state

\* A report of handle_subscription_control for the action, no platform call
\* of which failed.
ServedReport(m, action) ==
  /\ m.op = "handle_subscription_control" /\ ~m.raised
  /\ m.results.action = action /\ m.failed = {}

\* The entries of a report: how many bindings each consumer had changed and
\* how many were in the wanted state already.
Changed(entry, action) ==
  IF action = "enable" THEN entry.mappings_enabled
  ELSE entry.mappings_disabled
Already(entry, action) ==
  IF action = "enable" THEN entry.mappings_already_enabled
  ELSE entry.mappings_already_disabled
EveryBindingChanged(m, action) ==
  \A i \in 1..Len(m.results.functions_processed) :
    LET entry == m.results.functions_processed[i]
    IN  /\ entry.success
        /\ Changed(entry, action) = entry.mappings_processed
        /\ Already(entry, action) = 0
NoBindingChanged(m, action) ==
  \A i \in 1..Len(m.results.functions_processed) :
    LET entry == m.results.functions_processed[i]
    IN  /\ entry.success
        /\ Changed(entry, action) = 0
        /\ Already(entry, action) = entry.mappings_processed

\* The report has one entry for each consumer of the registry, in its order,
\* that counts the consumer's SQS bindings.
CountsEveryConsumer(m, managed, funcs) ==
  /\ Len(m.results.functions_processed) = Len(managed)
  /\ \A i \in 1..Len(managed) :
       /\ m.results.functions_processed[i].function_name
            = managed[i].function_name
       /\ m.results.functions_processed[i].mappings_processed
            = BindingCount(funcs, managed[i].function_name)

Report(m) == m.op = "handle_subscription_control" /\ ~m.raised

\* The consumer's entry says that an update of one of its bindings failed.
UpdateFailed(entry) ==
  \E k \in 1..Len(entry.errors) :
    entry.errors[k].text \in {"Failed to enable mapping",
                              "Failed to disable mapping"}

\* C17: within one handle_subscription_control call, a failure for one
\* consumer does not keep the others from being toggled: the report has an
\* entry for every consumer of the registry, and every consumer no call
\* failed for is recorded with success and has none of its SQS bindings left
\* in the state the action changes, before or after the failing one.
C17_FailureIsolated ==
  Report(mlast) =>
    /\ Len(mlast.results.functions_processed) = Len(managed_functions)
    /\ \A i \in 1..Len(managed_functions) :
         LET entry == mlast.results.functions_processed[i]
             function_name == managed_functions[i].function_name
         IN  /\ entry.function_name = function_name
             /\ function_name \notin mlast.failed
                  => /\ entry.success
                     /\ entry.mappings_processed
                          = BindingCount(functions, function_name)
                     /\ \A u \in 1..Len(functions[function_name]) :
                          IsSqsArn(functions[function_name][u].EventSourceArn)
                            => functions[function_name][u].State #
                                 (IF mlast.results.action = "enable"
                                    THEN "Disabled" ELSE "Enabled")

\* An update of a binding of the first consumer failed, and the second
\* consumer's binding was enabled all the same.
C17_Witness ==
  /\ Report(mlast) /\ mlast.results.action = "enable"
  /\ mlast.failed = {BANK}
  /\ Len(mlast.results.functions_processed) = 2
  /\ UpdateFailed(mlast.results.functions_processed[1])
  /\ ~mlast.results.functions_processed[1].success
  /\ mlast.results.functions_processed[2].function_name = PAYMENT
  /\ mlast.results.functions_processed[2].success
  /\ mlast.results.functions_processed[2].mappings_enabled = 1

\* C18: in every report of handle_subscription_control a consumer's success
\* is false exactly when its own errors are not empty, success_count is the
\* number of entries with success, and success_count + error_count is the
\* number of consumers processed, which is that of the registry.
C18_SuccessIffNoErrors ==
  Report(mlast) =>
    LET entries == mlast.results.functions_processed
    IN  /\ \A i \in 1..Len(entries) :
             ~entries[i].success <=> entries[i].errors # << >>
        /\ mlast.results.success_count
             = Cardinality({i \in 1..Len(entries) : entries[i].success})
        /\ mlast.results.success_count + mlast.results.error_count
             = Len(entries)
        /\ Len(entries) = Len(managed_functions)

\* One consumer succeeded and one failed in the same report.
C18_Witness ==
  /\ Report(mlast)
  /\ mlast.results.success_count = 1 /\ mlast.results.error_count = 1
  /\ \E i \in 1..Len(mlast.results.functions_processed) :
       /\ ~mlast.results.functions_processed[i].success
       /\ UpdateFailed(mlast.results.functions_processed[i])

\* C19 as claimed: the errors of a report hold every error of every
\* consumer's entry, so they are not empty when error_count > 0.
C19_AggregateErrors ==
  Report(mlast) =>
    /\ \A i \in 1..Len(mlast.results.functions_processed) :
         \A k \in 1..Len(mlast.results.functions_processed[i].errors) :
           \E j \in 1..Len(mlast.results.errors) :
             mlast.results.errors[j]
               = mlast.results.functions_processed[i].errors[k]
    /\ mlast.results.error_count > 0 => mlast.results.errors # << >>

\* C20: refresh_configuration without force, less than the refresh interval
\* after the last refresh, makes no platform call, leaves managed_functions
\* and the time of the last refresh as they are and reports refreshed false
\* with the size of the registry; with force it always scans again, whatever
\* the time, and the time of the last refresh becomes the current one.
C20_RefreshWithinInterval ==
  [][mlast'.op = "refresh_configuration" =>
       /\ (~mlast'.force
            /\ now - last_config_refresh < CONFIG_REFRESH_INTERVAL)
            => /\ mlast'.calls = NoCalls
               /\ managed_functions' = managed_functions
               /\ last_config_refresh' = last_config_refresh
               /\ ~mlast'.report.refreshed
               /\ mlast'.report.functions_count = Len(managed_functions)
       /\ mlast'.force
            => /\ mlast'.report.refreshed
               /\ mlast'.calls.list_functions = 1
               /\ last_config_refresh' = now
               /\ mlast'.report.old_count = Len(managed_functions)
               /\ mlast'.report.new_count = Len(managed_functions')]_vars

\* Half an interval after the last refresh the registry is out of date (the
\* bank account consumer has an SQS mapping by now) and a refresh without
\* force leaves it so.
C20_Witness ==
  /\ mlast.op = "refresh_configuration" /\ ~mlast.force
  /\ ~mlast.report.refreshed /\ mlast.calls = NoCalls
  /\ now - last_config_refresh = 150
  /\ Len(managed_functions) = 1
  /\ managed_functions[1].function_name = PAYMENT
  /\ BindingCount(functions, BANK) > 0

\* The registry was scanned again by the last operation.
Rescanned == mlast.op = "refresh_configuration" /\ mlast.report.refreshed

\* C21 as claimed: after a re-scan no member of the registry has a name
\* that contains one of the exclude patterns.
C21_NoExcludedMember ==
  Rescanned =>
    \A i \in 1..Len(managed_functions) :
      \A exclude \in EXCLUDE_FUNCTIONS :
        ~Contains(ServiceName(managed_functions[i].function_name), exclude)

\* C22 as claimed: after a re-scan every member of the registry has at least
\* one SQS binding on the platform that was scanned.
C22_MembersHaveBindings ==
  Rescanned =>
    \A i \in 1..Len(managed_functions) :
      BindingCount(functions, managed_functions[i].function_name) >= 1

\* The SQS bindings of a consumer that are in a state.
BindingsIn(funcs, function_name, state) ==
  Cardinality({u \in 1..Len(funcs[function_name]) :
                 /\ IsSqsArn(funcs[function_name][u].EventSourceArn)
                 /\ funcs[function_name][u].State = state})

\* A status report answered by lambda_handler.
StatusReport(m) ==
  /\ m.op = "lambda_handler"
  /\ m.event.is_mapping /\ ~HasKey(m.event, "Records")
  /\ Get(m.event, "action", "none") = "status"
  /\ m.response.statusCode = 200

\* C23 as claimed: get_subscription_status reports a consumer as error iff
\* its listing failed, and otherwise as enabled iff it has SQS bindings and
\* all are Enabled, disabled iff it has some and all are Disabled, mixed iff
\* at least one is Enabled and at least one Disabled, no_mappings iff it has
\* none; the summary counts the consumers of each of the four statuses.
C23_StatusClassification ==
  StatusReport(mlast) =>
    LET status == mlast.response.body.status
        entries == status.functions
        Count(overall_status) ==
          Cardinality({i \in 1..Len(entries) :
                         entries[i].overall_status = overall_status})
    IN  /\ \A i \in 1..Len(entries) :
             LET f == entries[i].function_name
                 is == entries[i].overall_status
                 total == BindingCount(functions, f)
                 enabled == BindingsIn(functions, f, "Enabled")
                 disabled == BindingsIn(functions, f, "Disabled")
             IN  /\ is = "error" <=> f \in mlast.failed
                 /\ f \notin mlast.failed =>
                      /\ is = "enabled" <=> (total > 0 /\ enabled = total)
                      /\ is = "disabled" <=> (total > 0 /\ disabled = total)
                      /\ is = "mixed" <=> (enabled >= 1 /\ disabled >= 1)
                      /\ is = "no_mappings" <=> total = 0
        /\ status.summary.enabled_functions = Count("enabled")
        /\ status.summary.disabled_functions = Count("disabled")
        /\ status.summary.mixed_state_functions = Count("mixed")
        /\ status.summary.error_functions = Count("error")

\* C23: get_subscription_status reports a consumer as error iff its listing
\* failed, and otherwise as enabled iff it has SQS bindings and all are
\* Enabled, disabled iff it has some and all are Disabled, no_mappings iff it
\* has none, and mixed in every other case, a binding in a transitional
\* state included; the summary counts the consumers that are enabled,
\* disabled, mixed and in error, and a no_mappings consumer in none of them.
C23_StatusAsClassified ==
  StatusReport(mlast) =>
    LET status == mlast.response.body.status
        entries == status.functions
        Count(overall_status) ==
          Cardinality({i \in 1..Len(entries) :
                         entries[i].overall_status = overall_status})
    IN  /\ \A i \in 1..Len(entries) :
             LET f == entries[i].function_name
                 is == entries[i].overall_status
                 total == BindingCount(functions, f)
                 enabled == BindingsIn(functions, f, "Enabled")
                 disabled == BindingsIn(functions, f, "Disabled")
             IN  /\ is = "error" <=> f \in mlast.failed
                 /\ f \notin mlast.failed =>
                      /\ is = "enabled" <=> (total > 0 /\ enabled = total)
                      /\ is = "disabled" <=> (total > 0 /\ disabled = total)
                      /\ is = "no_mappings" <=> total = 0
                      /\ is = "mixed" <=>
                           (total > 0 /\ enabled # total /\ disabled # total)
        /\ status.summary.total_functions = Len(entries)
        /\ status.summary.enabled_functions = Count("enabled")
        /\ status.summary.disabled_functions = Count("disabled")
        /\ status.summary.mixed_state_functions = Count("mixed")
        /\ status.summary.error_functions = Count("error")
        /\ Count("enabled") + Count("disabled") + Count("mixed")
             + Count("error") + Count("no_mappings") = Len(entries)

\* The payment consumer's one binding is being updated and the consumer is
\* reported as mixed, beside the bank account consumer that is enabled.
C23_Witness ==
  /\ StatusReport(mlast)
  /\ Len(mlast.response.body.status.functions) = 2
  /\ mlast.response.body.status.functions[1].overall_status = "enabled"
  /\ mlast.response.body.status.functions[2].overall_status = "mixed"
  /\ BindingsIn(functions, PAYMENT, "Updating") = 1
  /\ mlast.response.body.status.summary.mixed_state_functions = 1

\* The control message of the scenario and its delivery by SNS.
EnableByOps == Mapping({<<"action", "enable">>, <<"operator", "ops">>})
\* lambda_handler answered the delivery of the message, every call served,
\* with the report of two consumers.
EnableDelivered(m) ==
  /\ m.op = "lambda_handler"
  /\ m.event = SnsEvent(<<SnsRecord(EnableByOps)>>)
  /\ m.response.statusCode = 200 /\ m.failed = {}
  /\ Len(m.response.body.results) = 1
  /\ Len(m.response.body.results[1].functions_processed) = 2

TargetOf(control_message) ==
  Get(control_message, "target_service", Get(control_message, "service", ""))

\* C25 as claimed: a control message that names a target service changes
\* the bindings of that consumer only; the bindings of every other consumer
\* are as they were before the manager handled the message.
C25_TargetOnly ==
  [][(/\ mlast'.op = "handle_subscription_control"
      /\ TargetOf(mlast'.control_message) # "")
       => \A c \in Consumers :
            ServiceName(c) # TargetOf(mlast'.control_message)
              => functions'[c] = functions[c]]_vars

\* A direct invocation of lambda_handler: an event without 'Records'.
DirectInvocation(m) ==
  m.op = "lambda_handler" /\ ~HasKey(m.event, "Records")

Changeable(action) == IF action = "enable" THEN "Disabled" ELSE "Enabled"

\* C29: when the update of one binding of a consumer fails during
\* handle_subscription_control, whatever the exception, the failure is in
\* the consumer's errors and the consumer's other bindings are still
\* updated: the failing one alone is left in the state the action changes.
C29_LoopContinues ==
  [][Report(mlast') =>
       \A i \in 1..Len(mlast'.results.functions_processed) :
         LET entry == mlast'.results.functions_processed[i]
             function_name == entry.function_name
         IN  FaultOf(mlast'.fault, function_name)
               \in {"update_client", "update_other"}
             => /\ entry.errors # << >>
                /\ BindingsIn(functions', function_name,
                              Changeable(mlast'.results.action)) = 1]_vars

\* The SQS bindings of the registry's members that a call with the faults
\* has to update.
ToUpdate(funcs, managed, fault, action) ==
  {p \in (1..Len(managed)) \X (1..(MaxBindings + 1)) :
     /\ FaultOf(fault, managed[p[1]].function_name) # "list"
     /\ p[2] \in 1..Len(funcs[managed[p[1]].function_name])
     /\ IsSqsArn(funcs[managed[p[1]].function_name][p[2]].EventSourceArn)
     /\ funcs[managed[p[1]].function_name][p[2]].State = Changeable(action)}

\* C30: a consumer whose mappings cannot be listed during
\* handle_subscription_control has success false, the one error "Failed to
\* list event source mappings" and no mapping processed, and none of its
\* mappings changes; it is counted in error_count; the report still has an
\* entry for every consumer of the registry, every consumer without a fault
\* is toggled with success, and (no update failing) the update calls made
\* are those for the other consumers' bindings.
C30_ListFailure ==
  [][Report(mlast') =>
       LET entries == mlast'.results.functions_processed
           action == mlast'.results.action
           unlisted == {i \in 1..Len(entries) :
                          FaultOf(mlast'.fault, entries[i].function_name)
                            = "list"}
       IN  /\ Len(entries) = Len(managed_functions')
           /\ \A i \in unlisted :
                /\ ~entries[i].success
                /\ Len(entries[i].errors) = 1
                /\ entries[i].errors[1].text
                     = "Failed to list event source mappings"
                /\ entries[i].mappings_processed = 0
                /\ Changed(entries[i], action) = 0
                /\ functions'[entries[i].function_name]
                     = functions[entries[i].function_name]
           /\ mlast'.results.error_count >= Cardinality(unlisted)
           /\ \A i \in 1..Len(entries) :
                FaultOf(mlast'.fault, entries[i].function_name) = "none"
                  => /\ entries[i].success
                     /\ BindingsIn(functions', entries[i].function_name,
                                   Changeable(action)) = 0
           /\ (\A c \in Consumers :
                 FaultOf(mlast'.fault, c) \in {"none", "list"})
                => mlast'.calls.update_event_source_mapping
                     = Cardinality(ToUpdate(functions, managed_functions',
                                            mlast'.fault, action))]_vars

\* The mappings of the first consumer could not be listed; the second
\* consumer's Disabled binding was enabled all the same.
C30_Witness ==
  /\ Report(mlast) /\ mlast.results.action = "enable"
  /\ FaultOf(mlast.fault, BANK) = "list"
  /\ FaultOf(mlast.fault, PAYMENT) = "none"
  /\ Len(mlast.results.functions_processed) = 2
  /\ ~mlast.results.functions_processed[1].success
  /\ mlast.results.functions_processed[1].function_name = BANK
  /\ BindingsIn(functions, BANK, "Disabled") >= 1
  /\ mlast.results.functions_processed[2].mappings_enabled >= 1
  /\ mlast.results.error_count = 1 /\ mlast.results.success_count = 1

\* =================================== the queue of the bank account consumer
\* The messages sent while the model runs.
MaxSent == 3

\* The bodies sent to the queue: a valid request, one the bank rejects (400),
\* one the bank's service fails on (500).
QueueBodies ==
  { BankMessage("CUST-001", AllFields),
    BankMessage("CUST-ERROR400-BANK", AllFields),
    BankMessage("CUST-ERROR500-BANK", AllFields) }

\* A record of the event that the event source mapping hands to the function.
SqsRecord(message_id, message_body) ==
  [eventSource |-> "aws:sqs", messageId |-> message_id,
   body |-> JsonText(message_body)]

\* An SQS mapping of the function is Enabled: the platform polls the queue.
Polling(maps) ==
  \E u \in KnownUuids(maps) : maps[u].State = "Enabled"

\* What lambda_handler of the bank account consumer returns for the result
\* of processing its one record: the 200 response with the counts, or the
\* 500 response of its except clause. It raises in neither case.
bank_lambda_response(parsed, r) ==
  IF parsed.raised \/ r.raised
    THEN [raised |-> FALSE, response |-> InternalServerError,
          results |-> << >>]
    ELSE [raised |-> FALSE,
          response |->
            [statusCode |-> 200,
             body |-> [processed |-> 1,
                       successful |->
                         IF r.result.status = "success" THEN 1 ELSE 0,
                       failed |->
                         IF r.result.status = "error" THEN 1 ELSE 0]],
          results |-> <<r.result>>]

\* The queue of the bank account consumer with its event source mappings on
\* the platform (functions[BANK]); the consumer's error handler has a manager
\* that discovered its mapping, and the centralized manager has scanned.
QueueInit ==
  /\ functions \in {p \in PlatformStates :
                       /\ p[BANK] # << >>
                       /\ \A u \in 1..Len(p[BANK]) : p[BANK][u].State = "Enabled"
                       /\ p[PAYMENT][2].State = "Enabled"}
  /\ mappings = << >>
  /\ built = "create_error_handler"
  /\ uuid = SubscriptionManager_init(NoUuid, functions[BANK], TRUE)
  /\ last = Idle("none")
  /\ now = 0
  /\ managed_functions = load_managed_functions(functions, ServedScan).functions
  /\ last_config_refresh = now
  /\ mlast = MIdle("construct")
  /\ queue = << >>
  /\ sent = 0
  /\ TopicAbsent
  /\ NothingInFlight

\* A producer sends a message to the queue.
SendMessage(message_body) ==
  /\ sent < MaxSent
  /\ sent' = sent + 1
  /\ queue' = Append(queue, SqsRecord(sent + 1, message_body))
  /\ UNCHANGED <<cvars, mvars, tvars, inflight>>

\* The event source mapping, while Enabled, invokes lambda_handler of the
\* bank account consumer with the oldest message; the platform deletes the
\* message when the invocation returns and keeps it when it raises.
Deliver(ok) ==
  /\ queue # << >>
  /\ Polling(functions[BANK])
  /\ \E parsed \in {json_loads(Head(queue).body)} :
       \E r \in {process_bank_account_message(
                   parsed.value, uuid, functions[BANK], ok)} :
         \E invocation \in {bank_lambda_response(parsed, r)} :
           /\ functions' = [functions EXCEPT ![BANK] =
                             IF parsed.raised THEN @ ELSE r.mappings]
           /\ queue' = IF invocation.raised THEN queue ELSE Tail(queue)
           /\ last' = [op |-> "lambda_handler", record |-> Head(queue),
                        raised |-> invocation.raised,
                        response |-> invocation.response,
                        results |-> invocation.results,
                        update_calls |-> r.update_calls,
                        failed |-> r.failed]
           /\ mlast' = MIdle("platform")
  /\ UNCHANGED <<mappings, built, uuid, sent>>
  /\ UNCHANGED <<managed_functions, last_config_refresh, now>>
  /\ UNCHANGED <<tvars, inflight>>

\* The control message an operator publishes to resume processing.
QueueControls ==
  {Mapping({<<"action", "enable">>, <<"operator", "ops">>})}

QueueNext ==
  \/ \E message_body \in QueueBodies : SendMessage(message_body)
  \/ \E ok \in BOOLEAN : Deliver(ok)
  \/ \E control_message \in QueueControls :
       HandleSubscriptionControl(control_message, NoFaults, ServedScan)

SpecQueue == QueueInit /\ [][QueueNext]_vars

\* The platform keeps polling a queue whose mapping is Enabled.
SpecQueueFair == SpecQueue /\ WF_vars(\E ok \in BOOLEAN : Deliver(ok))

\* The message of the last invocation failed with a server error.
ServerErrorDelivered(l) ==
  /\ l.op = "lambda_handler"
  /\ Len(l.results) = 1
  /\ l.results[1].status = "error"
  /\ l.results[1].error_info.error_type = SERVER_ERROR
InQueue(record) == \E i \in 1..Len(queue) : queue[i] = record

\* C27: a message whose processing failed with a server error is still in
\* the queue afterwards: the invocation did not make the platform delete it.
C27_NotLostOn5xx ==
  ServerErrorDelivered(last) => InQueue(last.record)

\* The server error of the last invocation disabled the subscription.
Stopped(l) ==
  /\ ServerErrorDelivered(l)
  /\ l.results[1].error_info.subscription_disabled
\* The last control message applied was an enable that succeeded for the
\* bank account consumer.
EnableApplied(m) ==
  /\ Report(m) /\ m.results.action = "enable"
  /\ \A i \in 1..Len(m.results.functions_processed) :
       m.results.functions_processed[i].function_name = BANK
         => m.results.functions_processed[i].success

\* After a server error disabled the subscription no message leaves the
\* queue until an enable is applied.
Accumulates ==
  [][(Stopped(last) /\ ~EnableApplied(mlast))
       => Len(queue') >= Len(queue)]_vars
\* An enable that is applied leaves the consumer's SQS mappings Enabled.
EnableEnables ==
  [][EnableApplied(mlast')
       => BindingsIn(functions', BANK, "Enabled")
            = BindingCount(functions', BANK)]_vars
\* Every message in the queue when an enable is applied is processed in the
\* end.
Drains ==
  \A id \in 1..MaxSent :
    (EnableApplied(mlast) /\ \E i \in 1..Len(queue) : queue[i].messageId = id)
      ~> (sent >= id /\ \A i \in 1..Len(queue) : queue[i].messageId # id)

\* C28: once a server error has disabled the consumer's subscription the
\* messages sent to its queue stay there until an enable control message is
\* applied; the enable leaves the consumer's mappings Enabled, and every
\* message then in the queue is processed in the end, the platform polling
\* fairly.
C28_AccumulateThenDrain ==
  Accumulates /\ EnableEnables /\ Drains

\* C40: the retry flag that handle_error returns is should_retry of the kind
\* the failure was classified as.
C40_RetryAgrees ==
  Returned => (last.result.retry <=> should_retry(Kind))

\* The SQS bindings of a function in a transitional state.
Transitional(funcs, function_name) ==
  {u \in 1..Len(funcs[function_name]) :
     /\ IsSqsArn(funcs[function_name][u].EventSourceArn)
     /\ funcs[function_name][u].State \notin {"Enabled", "Disabled"}}

\* C32: handle_subscription_control leaves an SQS binding that is neither
\* Enabled nor Disabled as it is and issues no update for it; the binding is
\* counted neither as changed nor as already in the wanted state nor as an
\* error, and the consumer's success stays true when no call fails for it.
C32_TransitioningLeftAlone ==
  [][Report(mlast') =>
       LET entries == mlast'.results.functions_processed
           action == mlast'.results.action
       IN  /\ \A i \in 1..Len(entries) :
                LET function_name == entries[i].function_name
                IN  /\ \A u \in Transitional(functions, function_name) :
                         functions'[function_name][u]
                           = functions[function_name][u]
                    /\ FaultOf(mlast'.fault, function_name) = "none"
                         => /\ Changed(entries[i], action)
                                 + Already(entries[i], action)
                               = BindingCount(functions, function_name)
                                 - Cardinality(
                                     Transitional(functions, function_name))
                            /\ entries[i].errors = << >>
                            /\ entries[i].success
           /\ (\A c \in Consumers : FaultOf(mlast'.fault, c) = "none")
                => mlast'.calls.update_event_source_mapping
                     = Cardinality(ToUpdate(functions, managed_functions',
                                            NoFaults, action))]_vars

\* The first consumer has a binding in transition next to one that the enable
\* changed: the report counts one binding changed of two processed, with
\* success.
C32_Witness ==
  /\ Report(mlast) /\ mlast.results.action = "enable"
  /\ Len(mlast.results.functions_processed) = 2
  /\ mlast.results.functions_processed[1].function_name = BANK
  /\ mlast.results.functions_processed[1].success
  /\ mlast.results.functions_processed[1].mappings_processed = 2
  /\ mlast.results.functions_processed[1].mappings_enabled = 1
  /\ mlast.results.functions_processed[1].mappings_already_enabled = 0
  /\ Cardinality(Transitional(functions, BANK)) = 1
  /\ mlast.calls.update_event_source_mapping >= 1

\* The function names of a registry.
RegistryNames(managed) == {managed[i].function_name : i \in 1..Len(managed)}

\* C33: a refresh that scans again reports as added the names of the new
\* registry that the previous one lacked, as removed the names of the
\* previous registry that the new one lacks, and as current_functions the
\* names of the new registry, in its order, with the two counts.
C33_RefreshReportsDifference ==
  [][(mlast'.op = "refresh_configuration" /\ mlast'.report.refreshed) =>
       /\ mlast'.report.added_functions
            = RegistryNames(managed_functions')
                \ RegistryNames(managed_functions)
       /\ mlast'.report.removed_functions
            = RegistryNames(managed_functions)
                \ RegistryNames(managed_functions')
       /\ mlast'.report.current_functions
            = [i \in 1..Len(managed_functions') |->
                 managed_functions'[i].function_name]
       /\ mlast'.report.old_count = Len(managed_functions)
       /\ mlast'.report.new_count = Len(managed_functions')]_vars

\* A refresh found one function gone and another one new.
C33_Witness ==
  /\ Rescanned
  /\ mlast.report.added_functions # {}
  /\ mlast.report.removed_functions # {}
  /\ mlast.report.new_count = Len(managed_functions)

\* The sources of the registry in the order of _load_managed_functions, and
\* what each yields to a scan of the platform.
SourceNames == <<"scan", "ssm", "dynamodb", "tagged", "environment">>
Yields(scan, funcs) ==
  <<auto_discover_all_functions(funcs, scan).functions,
    scan.configured.ssm, scan.configured.dynamodb,
    scan.configured.tagged, scan.configured.environment>>

\* C34: the registry that is loaded is what the first source in the order
\* scan, parameter store, table, tags, environment with a non-empty yield
\* yields, the sources after that one are not consulted, and the registry is
\* empty only when every source yields nothing.
C34_FirstSourceWins ==
  [][(mlast'.op = "refresh_configuration" /\ mlast'.report.refreshed) =>
       LET yields == Yields(mlast'.scan, functions)
           yielding == {i \in 1..Len(SourceNames) : yields[i] # << >>}
       IN  IF yielding = {}
             THEN /\ managed_functions' = << >>
                  /\ mlast'.consulted = SourceNames
             ELSE LET first == CHOOSE i \in yielding :
                                 \A j \in yielding : i <= j
                  IN  /\ managed_functions' = yields[first]
                      /\ managed_functions' # << >>
                      /\ mlast'.consulted = SubSeq(SourceNames, 1, first)]_vars

\* The scan, the parameter store and the table yielded nothing: the registry
\* is that of the tags, and the environment, which names another function,
\* was not consulted.
C34_Witness ==
  /\ Rescanned
  /\ mlast.consulted = <<"scan", "ssm", "dynamodb", "tagged">>
  /\ managed_functions = <<FunctionConfig(BANK)>>
  /\ mlast.scan.configured.environment = <<FunctionConfig(PAYMENT)>>

\* No source of the registry yields a function to the scan.
NothingYielded(scan, funcs) ==
  \A i \in 1..Len(SourceNames) : Yields(scan, funcs)[i] = << >>
\* A report of handle_subscription_control without a consumer.
EmptyReport(m) ==
  /\ m.results.functions_processed = << >>
  /\ m.results.success_count = 0 /\ m.results.error_count = 0
  /\ m.calls.update_event_source_mapping = 0
\* A refresh that scanned and found no source yielding anything.
RefreshedToNothing(m, funcs) ==
  /\ m.op = "refresh_configuration" /\ m.report.refreshed
  /\ NothingYielded(m.scan, funcs)

\* C36 as claimed: a refresh that scans while every source fails or yields
\* nothing leaves the registry empty, whatever it held; a
\* handle_subscription_control that follows on the empty registry updates no
\* binding and reports no consumer, success_count 0 and error_count 0.
C36_EmptyRegistryIdle ==
  [][/\ RefreshedToNothing(mlast', functions)
          => managed_functions' = << >>
     /\ (managed_functions = << >> /\ Report(mlast'))
          => EmptyReport(mlast') /\ functions' = functions]_vars

\* C36 as the code has it: the same, for a handle_subscription_control that
\* follows before the refresh interval has passed since the registry was
\* loaded (its own refresh does not scan, and the registry stays empty).
C36_EmptyRegistryIdleWithinInterval ==
  [][/\ RefreshedToNothing(mlast', functions)
          => managed_functions' = << >>
     /\ (managed_functions = << >> /\ ~RefreshDue /\ Report(mlast'))
          => /\ EmptyReport(mlast') /\ functions' = functions
             /\ managed_functions' = << >>]_vars

\* A refresh at a later time emptied the registry; the enable that followed
\* within the interval reported nothing although a binding is Disabled.
C36_Witness ==
  /\ Report(mlast) /\ mlast.results.action = "enable"
  /\ EmptyReport(mlast)
  /\ managed_functions = << >>
  /\ last_config_refresh > 0 /\ now - last_config_refresh = 150
  /\ BindingsIn(functions, BANK, "Disabled") >= 1

\* C37: when lambda_handler receives several control messages of which one
\* has an action that is not accepted, the messages before it have been
\* applied (here an enable: no SQS binding of the registry's members is left
\* Disabled), those after it are not handled (the disable that follows makes
\* no update: the calls made are those of the enable, and every binding that
\* was Enabled or Disabled is Enabled), and the response is the 500 error,
\* which carries no results.
C37_BatchStopsAtInvalid ==
  [][(mlast'.op = "lambda_handler" /\ mlast'.event = BatchEvent) =>
       LET registry ==
             load_managed_functions(functions, mlast'.scan).functions
       IN  /\ mlast'.response = InternalServerError
           /\ "results" \notin DOMAIN mlast'.response.body
           /\ \A i \in 1..Len(registry) :
                LET function_name == registry[i].function_name
                IN  /\ BindingsIn(functions', function_name, "Disabled") = 0
                    /\ BindingsIn(functions', function_name, "Enabled")
                         = BindingsIn(functions, function_name, "Enabled")
                           + BindingsIn(functions, function_name, "Disabled")
           /\ mlast'.calls.update_event_source_mapping
                = Cardinality(ToUpdate(functions, registry, NoFaults,
                                       "enable"))]_vars

\* The delivery was answered 500 after its first message had enabled the
\* bindings of both consumers.
C37_Witness ==
  /\ mlast.op = "lambda_handler" /\ mlast.event = BatchEvent
  /\ mlast.response.statusCode = 500
  /\ mlast.calls.update_event_source_mapping >= 2
  /\ BindingsIn(functions, BANK, "Enabled") >= 1
  /\ BindingsIn(functions, PAYMENT, "Enabled") = 1

\* lambda_handler answered an enable or disable request, sent directly or
\* delivered as one SNS record, with its report.
ControlRequest(m) ==
  /\ m.op = "lambda_handler" /\ m.event.is_mapping
  /\ m.response.statusCode = 200
  /\ \/ /\ ~HasKey(m.event, "Records")
        /\ Get(m.event, "action", "none") \in {"enable", "disable"}
     \/ /\ HasKey(m.event, "Records")
        /\ Len(m.response.body.results) = 1
ControlReport(m) ==
  IF HasKey(m.event, "Records") THEN m.response.body.results[1]
  ELSE m.response.body.result

\* C39: an invocation of lambda_handler for an enable or disable request
\* lists the platform's functions once, when the manager is constructed; the
\* refresh inside handle_subscription_control does not scan, and the report
\* has the consumers of the registry loaded at construction, in its order.
C39_ScannedOnce ==
  [][ControlRequest(mlast') =>
       LET registry ==
             load_managed_functions(functions, mlast'.scan).functions
           entries == ControlReport(mlast').functions_processed
       IN  /\ mlast'.calls.list_functions = 1
           /\ Len(entries) = Len(registry)
           /\ \A i \in 1..Len(entries) :
                entries[i].function_name = registry[i].function_name]_vars

\* The scan at construction could not list the mappings of the first
\* consumer: the enable toggled the second consumer alone and left the
\* Disabled binding of the first as it was.
C39_Witness ==
  /\ ControlRequest(mlast)
  /\ ControlReport(mlast).action = "enable"
  /\ mlast.scan.unlistable = {BANK}
  /\ Len(ControlReport(mlast).functions_processed) = 1
  /\ ControlReport(mlast).functions_processed[1].function_name = PAYMENT
  /\ ControlReport(mlast).functions_processed[1].mappings_enabled = 1
  /\ BindingsIn(functions, BANK, "Disabled") >= 1
  /\ mlast.calls.list_functions = 1

\* ------------------------------------ the subscription-control topic
\* The instrumented bank account function (lambda_function.py), whose event
\* source mappings are `mappings`, the centralized manager, and the topic
\* both are subscribed to.

\* The subscriptions of the topic: the instrumented function invoked by the
\* topic, the function's queue (the message arrives as an SQS record whose
\* body is the envelope of the topic), the manager invoked by the topic.
Subscriptions == <<"function", "queue", "manager">>

\* What the topic owes its subscribers for one published message.
Deliveries(message) ==
  [i \in 1..Len(Subscriptions) |-> [to |-> Subscriptions[i],
                                    message |-> message]]

\* The notification of handle_500_error, were it a disable control message.
error_notification_with_action(customer_id, error_message) ==
  Mapping({<<"error_type", "500_error">>, <<"customer_id", customer_id>>,
           <<"service", "bank_account_setup">>,
           <<"error_message", error_message>>,
           <<"action_taken", "subscription_disabled">>,
           <<"action", "disable">>})

\* error_notification of handle_500_error (its timestamp is left out).
error_notification(customer_id, error_message) ==
  Mapping({<<"error_type", "500_error">>, <<"customer_id", customer_id>>,
           <<"service", "bank_account_setup">>,
           <<"error_message", error_message>>,
           <<"action_taken", "subscription_disabled">>})

\* The call of an invocation that is not served: the listing or the update
\* of the mappings, or the publishing to the topic.
TopicFaults == {"none", "list", "update", "publish"}

\* The first listed SQS mapping in the given state, NoUuid when none is.
first_sqs_mapping(listed, state) ==
  LET found == {u \in 1..Len(listed) :
                  IsSqsArn(listed[u].EventSourceArn) /\ listed[u].State = state}
  IN  IF found = {} THEN NoUuid
      ELSE CHOOSE u \in found : \A v \in found : u <= v

\* The loop over the listing, in handle_500_error and in
\* handle_subscription_control: the first SQS mapping in the other state is
\* updated, and the loop breaks.
update_first_mapping(maps, enabled, fault) ==
  LET response == list_event_source_mappings(maps, fault # "list")
      u == first_sqs_mapping(response.EventSourceMappings,
                             IF enabled THEN "Disabled" ELSE "Enabled")
  IN  IF response.raised THEN [raised |-> TRUE, mappings |-> maps]
      ELSE IF u = NoUuid THEN [raised |-> FALSE, mappings |-> maps]
      ELSE update_event_source_mapping(maps, u, enabled, fault # "update")

\* handle_500_error(customer_id, error_message): the mappings it leaves and
\* the messages it publishes. It raises nothing.
handle_500_error(customer_id, error_message, maps, fault) ==
  LET updated == update_first_mapping(maps, FALSE, fault)
  IN  [mappings |-> updated.mappings,
       published |->
         IF updated.raised \/ fault = "publish" THEN << >>
         ELSE <<error_notification(customer_id, error_message)>>]

\* handle_subscription_control(control_message, customer_id) of
\* lambda_function.py. It raises nothing.
instrumented_handle_subscription_control(control_message, customer_id, maps, fault) ==
  LET action == Lower(Get(control_message, "action", ""))
  IN  IF action = "enable"
        THEN [mappings |-> update_first_mapping(maps, TRUE, fault).mappings,
              published |-> << >>]
      ELSE IF action = "disable"
        THEN handle_500_error(customer_id,
                              "Manual disable via control message", maps, fault)
      ELSE [mappings |-> maps, published |-> << >>]

\* The texts of the exceptions raised in process_bank_account_message of
\* lambda_function.py, and the fragments classify_error searches them for.
SimulatedUnavailable ==
  "Bank validation service unavailable (500 error simulation)"
SimulatedInvalid ==
  "Invalid account information provided (400 error simulation)"
MissingRequiredFields == "Validation failed: Missing required fields"
Searched(text) ==
  CASE text = SimulatedUnavailable -> {"unavailable", "500"}
    [] text = SimulatedInvalid -> {"invalid", "400"}
    [] OTHER -> {}

\* classify_error(error) of lambda_function.py
instrumented_classify_error(text) ==
  IF Searched(text) \cap {"unavailable", "500"} # {}
    THEN "external_service_error"
  ELSE IF Searched(text) \cap {"invalid", "400"} # {}
    THEN "validation_error"
  ELSE IF "timeout" \in Searched(text) THEN "timeout_error"
  ELSE "system_error"

\* The envelope in which the topic hands a message to a queue.
Envelope(message) ==
  Mapping({<<"Type", "Notification">>, <<"Subject", "subscription-control">>,
           <<"Message", JsonText(message)>>})

\* The text of the exception that the try block of process_bank_account_message
\* raises on a message that is no control message, "" when it raises none.
instrumented_failure(message_body) ==
  LET customer_id == Get(message_body, "customer_id", "unknown")
  IN  IF \E f \in AllFields : Get(message_body, f, "") = ""
        THEN MissingRequiredFields
      ELSE IF UpperHas(customer_id, "ERROR500") THEN SimulatedUnavailable
      ELSE IF UpperHas(customer_id, "ERROR400") THEN SimulatedInvalid
      ELSE ""

\* process_bank_account_message(record, context) of lambda_function.py:
\* whether it raises, the mappings it leaves, the messages it publishes.
instrumented_process_bank_account_message(record, maps, fault) ==
  LET body == json_loads(record.body)
      message_body == body.value
      enveloped == /\ ~body.raised
                   /\ HasKey(message_body, "Message")
                   /\ HasKey(message_body, "Subject")
      sns_message == IF enveloped
                       THEN json_loads(Get(message_body, "Message",
                                           MalformedText))
                       ELSE [raised |-> FALSE, value |-> Mapping({})]
      text == instrumented_failure(message_body)
      customer_id == Get(message_body, "customer_id", "unknown")
  IN  IF body.raised \/ sns_message.raised
        THEN [raised |-> TRUE, mappings |-> maps, published |-> << >>]
      ELSE IF enveloped /\ Get(sns_message.value, "action", "")
                             \in {"enable", "disable"}
        THEN [raised |-> FALSE] @@
             instrumented_handle_subscription_control(
               sns_message.value,
               Get(sns_message.value, "customer_context", "system"),
               maps, fault)
      ELSE IF text = ""
        THEN [raised |-> FALSE, mappings |-> maps, published |-> << >>]
      ELSE IF instrumented_classify_error(text) = "external_service_error"
        THEN [raised |-> FALSE] @@
             handle_500_error(customer_id, text, maps, fault)
      ELSE [raised |-> TRUE, mappings |-> maps, published |-> << >>]

\* The loop of lambda_handler over the records of an SQS event: it ends at
\* the record whose processing raises.
RECURSIVE process_records(_, _, _, _, _)
process_records(records, i, maps, fault, published_so_far) ==
  IF i > Len(records)
    THEN [raised |-> FALSE, mappings |-> maps, published |-> published_so_far]
  ELSE IF ~("eventSource" \in DOMAIN records[i]
            /\ records[i].eventSource = "aws:sqs")
    THEN process_records(records, i + 1, maps, fault, published_so_far)
  ELSE LET r == instrumented_process_bank_account_message(
                  records[i], maps, fault)
       IN  IF r.raised
             THEN [raised |-> TRUE, mappings |-> r.mappings,
                   published |-> published_so_far \o r.published]
           ELSE process_records(records, i + 1, r.mappings, fault,
                                published_so_far \o r.published)

\* lambda_handler(event, context) of lambda_function.py: the status code of
\* its response, the mappings it leaves, the messages it publishes.
instrumented_lambda_handler(event, maps, fault) ==
  LET records == Get(event, "Records", << >>)
      answer(code, r) ==
        [statusCode |-> code, mappings |-> r.mappings,
         published |-> r.published]
  IN  IF HasKey(event, "Records") /\ records = << >>
        THEN answer(500, [mappings |-> maps, published |-> << >>])
      ELSE IF HasKey(event, "Records")
               /\ "EventSource" \in DOMAIN records[1]
               /\ records[1].EventSource = "aws:sns"
        THEN LET sns_message == json_loads(records[1].Sns.Message)
             IN  IF sns_message.raised
                   THEN answer(500, [mappings |-> maps, published |-> << >>])
                 ELSE answer(200, instrumented_handle_subscription_control(
                               sns_message.value,
                               Get(sns_message.value, "customer_context",
                                   "system"),
                               maps, fault))
      ELSE LET r == IF HasKey(event, "Records")
                      THEN process_records(records, 1, maps, fault, << >>)
                      ELSE instrumented_process_bank_account_message(
                             SqsRecord("direct-invocation", event), maps, fault)
           IN  answer(IF r.raised THEN 500 ELSE 200, r)

\* The control messages an operator publishes to the topic.
TopicControls ==
  {Mapping({<<"action", a>>, <<"source", "test_script">>}) :
     a \in {"enable", "disable", "pause"}}

\* The requests whose processing starts a run.
TopicRequests ==
  { BankMessage("CUST-001", AllFields),
    BankMessage("CUST-ERROR400-BANK", AllFields),
    BankMessage("CUST-ERROR500-BANK", AllFields) }

\* The sequence without its i-th element.
RemoveAt(seq, i) ==
  [j \in 1..(Len(seq) - 1) |-> IF j < i THEN seq[j] ELSE seq[j + 1]]

\* The deliveries owed for the messages of one invocation, in their order.
RECURSIVE Owed(_, _)
Owed(messages, i) ==
  IF i > Len(messages) THEN << >>
  ELSE Deliveries(messages[i]) \o Owed(messages, i + 1)

\* Nothing was published yet; neither handler has run.
TopicInit ==
  /\ mappings \in MappingLists
  /\ built = "ErrorHandler"
  /\ uuid = NoUuid
  /\ last = Idle("none")
  /\ QueueAbsent
  /\ TopicAbsent
  /\ NothingInFlight
  /\ functions \in {p \in PlatformStates :
                      /\ Len(p[BANK]) = 1
                      /\ p[BANK][1].State = "Enabled"
                      /\ p[PAYMENT][2].State # "Updating"}
  /\ managed_functions = << >>
  /\ last_config_refresh = 0
  /\ now = 0
  /\ mlast = MIdle("none")

\* An operator publishes the control message a run starts from.
Publish(control_message) ==
  /\ published = 0
  /\ topic' = Deliveries(control_message)
  /\ published' = 1
  /\ last' = [Idle("publish") EXCEPT !.result = control_message]
  /\ UNCHANGED <<mappings, built, uuid>>
  /\ UNCHANGED <<mvars, qvars, inflight>>

\* The function's queue hands it the request a run starts from.
InvokeWithRequest(message_body, fault) ==
  /\ published = 0
  /\ \E r \in {instrumented_lambda_handler(
                 SnsEvent(<<SqsRecord(1, message_body)>>), mappings, fault)} :
       /\ mappings' = r.mappings
       /\ topic' = Owed(r.published, 1)
       /\ published' = Len(r.published)
       /\ last' = [Idle("lambda_handler") EXCEPT
                     !.result = message_body, !.status_code = r.statusCode]
  /\ UNCHANGED <<built, uuid>>
  /\ UNCHANGED <<mvars, qvars, inflight>>

\* The event in which a subscription of the instrumented function hands it a
\* message of the topic.
TopicEvent(to, message) ==
  IF to = "queue"
    THEN SnsEvent(<<SqsRecord(1, Envelope(message))>>)
    ELSE SnsEvent(<<SnsRecord(message)>>)

\* The topic delivers a message to the instrumented function, by invoking it
\* or through its queue.
DeliverToFunction(i, fault) ==
  /\ i \in 1..Len(topic)
  /\ topic[i].to \in {"function", "queue"}
  /\ \E r \in {instrumented_lambda_handler(
                 TopicEvent(topic[i].to, topic[i].message), mappings, fault)} :
       /\ mappings' = r.mappings
       /\ topic' = RemoveAt(topic, i) \o Owed(r.published, 1)
       /\ published' = published + Len(r.published)
       /\ last' = [Idle("deliver") EXCEPT
                     !.result = topic[i], !.status_code = r.statusCode]
  /\ UNCHANGED <<built, uuid>>
  /\ UNCHANGED <<mvars, qvars, inflight>>

\* The topic delivers a message to the manager's lambda_handler, which
\* publishes nothing.
DeliverToManager(i, scan) ==
  /\ i \in 1..Len(topic)
  /\ topic[i].to = "manager"
  /\ \E r \in {lambda_handler(SnsEvent(<<SnsRecord(topic[i].message)>>),
                              now, functions, NoFaults, scan)} :
       /\ functions' = r.functions
       /\ mlast' = [op |-> "lambda_handler", scan |-> scan, raised |-> FALSE,
                    response |-> r.response, calls |-> r.calls,
                    failed |-> r.failed]
  /\ topic' = RemoveAt(topic, i)
  /\ last' = [Idle("deliver") EXCEPT !.result = topic[i]]
  /\ UNCHANGED <<mappings, built, uuid, published>>
  /\ UNCHANGED <<managed_functions, last_config_refresh, now>>
  /\ UNCHANGED <<qvars, inflight>>

TopicNext ==
  \/ \E control_message \in TopicControls : Publish(control_message)
  \/ \E message_body \in TopicRequests, fault \in TopicFaults :
       InvokeWithRequest(message_body, fault)
  \/ \E i \in 1..Len(topic), fault \in TopicFaults :
       DeliverToFunction(i, fault)
  \/ \E i \in 1..Len(topic) : DeliverToManager(i, ServedScan)

SpecTopic == TopicInit /\ [][TopicNext]_vars

\* A message is a notification of handle_500_error.
IsNotification(message) == HasKey(message, "error_type")

\* The subscriptions that hand a message to the instrumented function, the
\* one handler that publishes.
PublishingSubscriptions ==
  {i \in 1..Len(Subscriptions) : Subscriptions[i] \in {"function", "queue"}}

\* What is left to do for the deliveries the topic owes: one step for each,
\* and for a control message handed to the instrumented function the
\* deliveries of the one notification its handling can publish.
RECURSIVE Remaining(_, _)
Remaining(deliveries, i) ==
  IF i > Len(deliveries) THEN 0
  ELSE (IF /\ ~IsNotification(deliveries[i].message)
           /\ deliveries[i].to \in {"function", "queue"}
          THEN 1 + Len(Subscriptions) ELSE 1)
       + Remaining(deliveries, i + 1)

\* C38: control-message processing cannot feed back on itself. The
\* notification of handle_500_error on the topic carries no action; the
\* handler that receives it (the instrumented function, invoked by the topic
\* or through its queue, or the manager) changes no mapping and publishes
\* nothing; every delivery leaves less to do than there was, so a run that
\* starts from one failure or one control message comes to rest; and no more
\* messages are published than the first and one notification by each
\* subscription of the instrumented function.
C38_NoFeedback ==
  /\ [](\A i \in 1..Len(topic) :
          IsNotification(topic[i].message)
            => ~HasKey(topic[i].message, "action"))
  /\ [][(last'.op = "deliver" /\ IsNotification(last'.result.message))
          => /\ mappings' = mappings
             /\ functions' = functions
             /\ published' = published
             /\ Len(topic') = Len(topic) - 1]_vars
  /\ [][last'.op = "deliver"
          => Remaining(topic', 1) < Remaining(topic, 1)]_vars
  /\ [](published <= 1 + Cardinality(PublishingSubscriptions))

\* A disable message was handled by every subscriber, the two notifications
\* it led to were delivered to every subscriber, a mapping of the function
\* in hand is Disabled, and the topic owes nothing more.
C38_Witness ==
  /\ published = 1 + Cardinality(PublishingSubscriptions)
  /\ topic = << >>
  /\ last.op = "deliver"
  /\ IsNotification(last.result.message)
  /\ \E u \in 1..Len(mappings) :
       IsSqsArn(mappings[u].EventSourceArn) /\ mappings[u].State = "Disabled"

\* ------------------------------------------- control operations that race
\* Invocations of the manager run side by side (one for each control
\* message), and so does the consumer's own error handler: each call to the
\* platform is a step of its own, and a mapping is toggled on the state the
\* operation listed, not on the state the platform holds by then.

\* How many control messages are published in a run.
MaxControls == 2

\* The accumulators of _enable_function_subscriptions and
\* _disable_function_subscriptions before the loop over sqs_mappings.
NoToggles ==
  [mappings |-> << >>, changed |-> 0, already |-> 0, errors |-> << >>,
   update_calls |-> 0, pending |-> "none", raised |-> FALSE]

\* handle_subscription_control(control_message) has validated the action and
\* is about to list the mappings of its first managed function.
Operation(action) ==
  [action |-> action, i |-> 1, stage |-> "list", listed |-> << >>,
   todo |-> << >>, acc |-> NoToggles, functions_processed |-> << >>,
   overwritten |-> {}]

\* The operation with the result of the function in hand appended to
\* functions_processed, and the loop of handle_subscription_control moved on
\* to the next managed function.
function_processed(op, function_name, acc) ==
  [op EXCEPT
     !.i = @ + 1, !.stage = "list", !.todo = << >>, !.acc = NoToggles,
     !.listed = << >>,
     !.functions_processed =
        Append(@, [function_name |-> function_name,
                   success |-> toggle_outcome(
                                 function_name,
                                 Len(SqsUuids(op.listed, 1)), acc).success,
                   listed |-> op.listed])]

\* The functions whose mappings an operation has listed so far.
ListedBy(op) ==
  {op.functions_processed[j].function_name :
     j \in 1..Len(op.functions_processed)}
    \cup (IF op.stage = "toggle"
            THEN {managed_functions[op.i].function_name} ELSE {})

\* The operations under way after another writer has updated a mapping of
\* the function: those that had listed it have been overwritten there.
Overwriting(ops, function_name) ==
  [j \in 1..Len(ops) |->
     IF function_name \in ListedBy(ops[j])
       THEN [ops[j] EXCEPT !.overwritten = @ \cup {function_name}]
       ELSE ops[j]]

\* The platform with two consumers, each mapping Enabled or Disabled; the
\* manager has scanned, the bank account consumer's error handler has
\* discovered its mapping.
RaceInit ==
  /\ functions \in {p \in PlatformStates :
                      /\ p[BANK] # << >>
                      /\ \A u \in 1..Len(p[BANK]) :
                           p[BANK][u].State # "Updating"
                      /\ p[PAYMENT][2].State # "Updating"}
  /\ mappings = << >>
  /\ built = "create_error_handler"
  /\ uuid = SubscriptionManager_init(NoUuid, functions[BANK], TRUE)
  /\ last = Idle("none")
  /\ now = 0
  /\ managed_functions = load_managed_functions(functions, ServedScan).functions
  /\ last_config_refresh = now
  /\ mlast = MIdle("construct")
  /\ QueueAbsent
  /\ TopicAbsent
  /\ NothingInFlight

\* A control message is published and an invocation of the manager begins
\* to handle it.
StartControl(action) ==
  /\ published < MaxControls
  /\ published' = published + 1
  /\ inflight' = Append(inflight, Operation(action))
  /\ mlast' = MIdle("start")
  /\ UNCHANGED <<functions, managed_functions, last_config_refresh, now>>
  /\ UNCHANGED <<cvars, qvars, topic>>

\* An operation lists the mappings of the managed function in hand; a
\* function without SQS mappings is done with.
ListMappings(k) ==
  /\ k \in 1..Len(inflight)
  /\ inflight[k].stage = "list"
  /\ inflight[k].i <= Len(managed_functions)
  /\ LET function_name == managed_functions[inflight[k].i].function_name
         response == list_event_source_mappings(functions[function_name], TRUE)
         listing == [inflight[k] EXCEPT
                       !.stage = "toggle",
                       !.listed = response.EventSourceMappings,
                       !.todo = SqsUuids(response.EventSourceMappings, 1)]
     IN  inflight' = [inflight EXCEPT ![k] =
                        IF listing.todo = << >>
                          THEN function_processed(listing, function_name,
                                                  NoToggles)
                          ELSE listing]
  /\ UNCHANGED <<mvars, cvars, qvars, tvars>>

\* An operation takes one turn of its loop over the listed SQS mappings;
\* after the last one the function is done with.
ToggleMapping(k) ==
  /\ k \in 1..Len(inflight)
  /\ inflight[k].stage = "toggle"
  /\ LET op == inflight[k]
         function_name == managed_functions[op.i].function_name
     IN  \E acc \in {toggle_mapping(
                       op.action = "enable", function_name, op.listed,
                       Head(op.todo),
                       [op.acc EXCEPT !.mappings = functions[function_name]])} :
           /\ functions' = [functions EXCEPT ![function_name] = acc.mappings]
           /\ inflight' =
                [(IF acc.update_calls > op.acc.update_calls
                    THEN Overwriting(inflight, function_name)
                    ELSE inflight) EXCEPT ![k] =
                   IF Tail(op.todo) = << >>
                     THEN function_processed(
                            op, function_name,
                            [acc EXCEPT !.mappings = << >>])
                     ELSE [op EXCEPT !.todo = Tail(@),
                                     !.acc = [acc EXCEPT !.mappings = << >>]]]
  /\ UNCHANGED <<managed_functions, last_config_refresh, now, mlast>>
  /\ UNCHANGED <<cvars, qvars, tvars>>

\* An operation that is through with the managed functions returns its
\* results.
ReturnResults(k) ==
  /\ k \in 1..Len(inflight)
  /\ inflight[k].i > Len(managed_functions)
  /\ inflight' = RemoveAt(inflight, k)
  /\ mlast' = [op |-> "handle_subscription_control", raised |-> FALSE,
               calls |-> NoCalls, action |-> inflight[k].action,
               functions_processed |-> inflight[k].functions_processed,
               overwritten |-> inflight[k].overwritten]
  /\ UNCHANGED <<functions, managed_functions, last_config_refresh, now>>
  /\ UNCHANGED <<cvars, qvars, tvars>>

\* The bank account consumer's error handler, on a server error, disables
\* the consumer's own mapping.
ConsumerDisables ==
  /\ uuid # NoUuid
  /\ \E r \in {disable_subscription(uuid, functions[BANK], TRUE)} :
       /\ functions' = [functions EXCEPT ![BANK] = r.mappings]
       /\ last' = [Idle("disable_subscription") EXCEPT
                     !.ret = r.ret, !.update_calls = r.update_calls]
  /\ inflight' = Overwriting(inflight, BANK)
  /\ UNCHANGED <<managed_functions, last_config_refresh, now, mlast>>
  /\ UNCHANGED <<mappings, built, uuid>>
  /\ UNCHANGED <<qvars, tvars>>

\* The steps of the operations under way.
OperationSteps ==
  \/ \E k \in 1..Len(inflight) : ListMappings(k)
  \/ \E k \in 1..Len(inflight) : ToggleMapping(k)
  \/ \E k \in 1..Len(inflight) : ReturnResults(k)

\* Enable and disable operations race.
RaceNext ==
  \/ \E action \in {"enable", "disable"} : StartControl(action)
  \/ OperationSteps

SpecRace == RaceInit /\ [][RaceNext]_vars

\* Enable operations race with the consumer's own error handler.
ConsumerRaceNext ==
  \/ StartControl("enable")
  \/ OperationSteps
  \/ ConsumerDisables

SpecConsumerRace == RaceInit /\ [][ConsumerRaceNext]_vars

\* The states of the SQS mappings of the managed consumers.
ManagedStates ==
  UNION {{functions[managed_functions[j].function_name][u].State :
            u \in {v \in 1..Len(functions[managed_functions[j].function_name]) :
                     IsSqsArn(functions[managed_functions[j].function_name][v]
                                .EventSourceArn)}} :
           j \in 1..Len(managed_functions)}

\* C31: when enable and disable operations race, disagreement is transient:
\* once every control operation that was started has returned (none met a
\* platform error), all SQS mappings of all managed consumers are in one and
\* the same state.
C31_RaceSettles ==
  (published > 0 /\ inflight = << >>) => Cardinality(ManagedStates) <= 1

\* An enable operation returns in this step.
EnableReturns ==
  /\ Len(inflight') < Len(inflight)
  /\ mlast'.op = "handle_subscription_control"
  /\ mlast'.action = "enable"

\* The SQS mappings of the listing that were Enabled or Disabled.
ListedToggled(listed) ==
  {u \in 1..Len(listed) :
     /\ IsSqsArn(listed[u].EventSourceArn)
     /\ listed[u].State \in {"Enabled", "Disabled"}}

\* C35 (as stated): whenever an enable operation returns a report in which a
\* consumer has success = true, every SQS mapping of that consumer that was
\* listed as Enabled or Disabled is Enabled when the report is returned,
\* also when the consumer's own error handler disables its mapping while
\* the operation runs.
C35_EnabledAtReturn ==
  [][EnableReturns =>
       \A j \in 1..Len(mlast'.functions_processed) :
         LET entry == mlast'.functions_processed[j]
         IN  entry.success =>
               \A u \in ListedToggled(entry.listed) :
                 functions'[entry.function_name][u].State = "Enabled"]_vars

\* C35 (amended): the mappings of a consumer reported with success = true
\* are Enabled when the report is returned if no other writer (the
\* consumer's error handler, another operation) has updated a mapping of
\* that consumer since the operation listed them.
C35_EnabledAtReturnUnlessOverwritten ==
  [][EnableReturns =>
       \A j \in 1..Len(mlast'.functions_processed) :
         LET entry == mlast'.functions_processed[j]
         IN  (entry.success /\ entry.function_name \notin mlast'.overwritten)
               => \A u \in ListedToggled(entry.listed) :
                    functions'[entry.function_name][u].State = "Enabled"]_vars

\* The consumer's error handler had disabled its mapping; an enable
\* operation listed it Disabled, enabled it undisturbed and has returned
\* success for the consumer, whose mapping is Enabled.
C35_Witness ==
  /\ mlast.op = "handle_subscription_control"
  /\ mlast.action = "enable"
  /\ last.op = "disable_subscription"
  /\ BANK \notin mlast.overwritten
  /\ \E j \in 1..Len(mlast.functions_processed) :
       LET entry == mlast.functions_processed[j]
       IN  /\ entry.function_name = BANK
           /\ entry.success
           /\ \E u \in ListedToggled(entry.listed) :
                /\ entry.listed[u].State = "Disabled"
                /\ functions[BANK][u].State = "Enabled"

====
